---------------------------- MODULE Spec2Model ----------------------------
(***************************************************************************)
(* A model of the wallaby-webpack postprocessor (WebpackPostprocessor):    *)
(* the incremental compile-and-emit run, the re-export closure, the module *)
(* identity scheme and the emitted loader and trailer scripts.             *)
(*                                                                         *)
(* The host (wallaby) and the compiler (webpack) are the environment: the  *)
(* host hands every run its file lists and flags, the compiler builds the  *)
(* stale modules of the project and reports each through the build-module  *)
(* hook.  The project is a small fixed set of files; which of them the host *)
(* tracks decides which dependencies resolve.                              *)
(***************************************************************************)
EXTENDS Integers, Sequences, FiniteSets, TLC

(***************************************************************************)
(* Bounds of the model.                                                    *)
(***************************************************************************)
\* most compiles that fail in one behaviour
MaxFailures == 1

(***************************************************************************)
(* Time.  The compiler only compares a module's cached build time with the *)
(* marker of the module's resource, so dates are kept on a normalised time *)
(* line: the sentinel, then a build older than its marker, a marker of an  *)
(* earlier run, a build of an earlier run, the marker of the run in        *)
(* progress (+new Date()) and a build of the run in progress.              *)
(***************************************************************************)
Sentinel == 1

StaleBuild == 2

EarlierDate == 3

EarlierBuild == 4

DateNow == 5

BuildNow == 6

(***************************************************************************)
(* JavaScript values that are used as identities and object keys: numbers, *)
(* strings and undefined.  A value carries its type and its property-key   *)
(* string (what ToString gives), so that a number and a string with the    *)
(* same digits are different values and still the same object key.         *)
(***************************************************************************)
NumStr(n) ==
  CASE n = 0 -> "0" [] n = 1 -> "1" [] n = 2 -> "2" [] n = 3 -> "3"
    [] n = 4 -> "4" [] n = 5 -> "5" [] n = 6 -> "6" [] OTHER -> "n"

Num(n) == [t |-> "num", s |-> NumStr(n), n |-> n]

Str(s) == [t |-> "str", s |-> s, n |-> 0]

Undefined == [t |-> "undef", s |-> "undefined", n |-> 0]

\* _.isNumber(v)
isNumber(v) == v.t = "num"

\* JavaScript truthiness of a value: 0, "" and undefined are falsy
Truthy(v) ==
  /\ v.t # "undef"
  /\ ~(v.t = "num" /\ v.s = "0")
  /\ ~(v.t = "str" /\ v.s = "")

\* the property key under which obj[v] is stored
ToKey(v) == v.s

\* obj[k] = v on a plain object modelled as a function from keys
Put(obj, k, v) == [x \in DOMAIN obj \cup {k} |-> IF x = k THEN v ELSE obj[x]]

\* obj[k], undefined when the key is absent
Get(obj, k) == IF k \in DOMAIN obj THEN obj[k] ELSE Undefined

EmptyObj == [x \in {} |-> Undefined]

SeqToSet(s) == {s[i] : i \in 1..Len(s)}

(***************************************************************************)
(* The host's tracked files.  A tracked file is named by its path; fullPath,*)
(* test, id and order are the other fields of the host's file object.      *)
(***************************************************************************)
BaseDir == "/"

Paths == {"t.spec.js", "a.js", "b.js", "c.js"}

fullPath(p) == BaseDir \o p

isTestPath(p) == p = "t.spec.js"

\* file.id, the host's id of the file (the values of the test dependency lists)
fileId(p) ==
  CASE p = "t.spec.js" -> 10 [] p = "a.js" -> 11 [] p = "b.js" -> 12 [] OTHER -> 13

\* file.order, the host's load order of the file
fileOrder(p) ==
  CASE p = "a.js" -> 1 [] p = "b.js" -> 2 [] p = "c.js" -> 3 [] OTHER -> 4

\* the tracked path with this full path, "" when there is none
pathOfFull(fp, tracked) ==
  IF \E p \in tracked : fullPath(p) = fp
  THEN CHOOSE p \in tracked : fullPath(p) = fp
  ELSE ""

(***************************************************************************)
(* The postprocessor's options (constructor): entryPatterns (<<>> stands   *)
(* for "not configured"), emitModulePaths, preserveEntryFileLoadOrder.     *)
(* A pattern is a glob; mm(path, pattern) is minimatch on the project's    *)
(* paths.                                                                  *)
(***************************************************************************)
mm(p, pattern) ==
  CASE pattern = "*.js" -> TRUE
    [] pattern = "*.spec.js" -> p = "t.spec.js"
    [] pattern = "x/*.js" -> FALSE
    [] OTHER -> p = pattern

Configs ==
  { [entryPatterns |-> <<>>, emitModulePaths |-> FALSE,
     preserveEntryFileLoadOrder |-> FALSE],
    [entryPatterns |-> <<"a.js", "*.js">>, emitModulePaths |-> TRUE,
     preserveEntryFileLoadOrder |-> FALSE],
    [entryPatterns |-> <<"*.spec.js", "c.js", "x/*.js", "t.spec.js">>,
     emitModulePaths |-> FALSE,
     preserveEntryFileLoadOrder |-> TRUE] }

\* the lists of tracked files the host may report (wallaby.allFiles)
FileLists ==
  { <<"t.spec.js", "a.js", "b.js">>,
    <<"b.js", "a.js", "t.spec.js", "c.js">>,
    <<"c.js", "t.spec.js", "b.js", "a.js">> }

\* the sets of files the host may report changed in one run over the tracked
\* files allFiles (wallaby.affectedFiles): none, one, a pair, or all of them
ChangedSets(allFiles) ==
  {{}} \cup {{p} : p \in SeqToSet(allFiles)}
       \cup {c \in {{"a.js", "c.js"}} : c \subseteq SeqToSet(allFiles)}
       \cup {SeqToSet(allFiles)}

VARIABLES
  \* ---- the environment: options, host and compiler
  opts,          \* the options the instance was constructed with
  hostFiles,     \* the host's current list of tracked files
  failures,      \* the number of compiles that failed so far
  wallaby,       \* the argument of the run in progress (or of the last run)
  pc,            \* "idle", "compiling", "emitting" or "settled"
  result,        \* how the promise of the last finished run settled
  \* ---- the instance's fields
  _compiler,                   \* whether this._compiler is set
  _loaderEmitRequired,
  _fullRun,
  _compilationCache,           \* module -> time of its cached build
  _compilationFileTimestamps,  \* resource -> marker
  _affectedModules,
  _moduleIds,
  _moduleIdByPath,
  _modulePathById,
  _allTrackedFiles,            \* the tracked paths, in key order
  _entryFiles,                 \* the entry paths, in key order
  _testDependencies,
  _testFilePathById,
  \* ---- the run in progress
  affectedFiles,               \* the handler's affectedFiles object (its keys)
  moduleFiles,                 \* wrapped-module artifacts created by the run
  loaderFile,                  \* the bootstrap script created by the run (0 or 1)
  entryFile,                   \* the trailer script created by the run (0 or 1)
  pending,                     \* the number of createFile promises not yet settled
  errors,                      \* lastCompilation.errors of the run's compile
  logged,                      \* the logger.error calls of the run, in order
  rejection,                   \* the error the run's promise rejected with (0 or 1)
  fulfilment,                  \* the value the run's promise resolved with (0 or 1)
  atStart,                     \* the four tables as the run found them (0 or 1)
  \* ---- what the host has received from the instance
  received,                    \* whether the host lacks the bootstrap script of a
                               \* rejected run, the identities of the artifacts created since the last
                               \* reset, and the last bootstrap script created (0 or 1)
  \* ---- a direct call of the static _getModuleId
  probe,                       \* the arguments and the result of the call (0 or 1)
  \* ---- the execution sandbox that loads the emitted scripts
  sandbox,                     \* window.__moduleBundler and the last call made on it
  \* ---- the sources the compiler reads, and a direct call of a traversal
  moduleGraph,                 \* module -> the dependency list its source text gives
  traversal,                   \* the arguments and the result of the call (0 or 1)
  \* ---- the user's editor
  edited                       \* the files saved with a new text since the last run

envVars == <<opts, hostFiles, failures, wallaby, pc, result>>

instVars ==
  <<_compiler, _loaderEmitRequired, _fullRun, _compilationCache,
    _compilationFileTimestamps, _affectedModules, _moduleIds, _moduleIdByPath,
    _modulePathById, _allTrackedFiles, _entryFiles, _testDependencies,
    _testFilePathById>>

runVars == <<affectedFiles, moduleFiles, loaderFile, entryFile, pending>>

obsVars == <<errors, logged, rejection, fulfilment, atStart>>

vars ==
  <<envVars, instVars, runVars, obsVars, received, probe, sandbox, moduleGraph,
    traversal, edited>>

(***************************************************************************)
(* The compiler's modules.  A module has the compiler's id, a resource     *)
(* (undefined for a runtime module) and an optional stable-id annotation.  *)
(* mA2 is a.js loaded a second time through a loader; mV is a vendor file  *)
(* the host does not track; mR and mS are modules without a resource (a    *)
(* context module, an external module).                                    *)
(***************************************************************************)
Modules == {"mT", "mA", "mB", "mC", "mA2", "mV", "mR", "mS"}

NoModule == "none"

\* m.id
id(m) ==
  CASE m = "mT" -> Num(0) [] m = "mA" -> Num(1) [] m = "mB" -> Num(2)
    [] m = "mC" -> Str("c") [] m = "mA2" -> Num(3) [] m = "mR" -> Num(5)
    [] m = "mS" -> Num(6) [] OTHER -> Num(4)

\* m.resource, "" when the module has none
resource(m) ==
  CASE m = "mT" -> "/t.spec.js" [] m = "mA" -> "/a.js" [] m = "mB" -> "/b.js"
    [] m = "mC" -> "/c.js" [] m = "mA2" -> "/a.js" [] m \in {"mR", "mS"} -> ""
    [] OTHER -> "/node_modules/v.js"

\* m.meta['aurelia-id'] and m.buildMeta['aurelia-id'], "" when absent
aureliaMeta(m) == ""

aureliaBuildMeta(m) == ""

\* the module the compiler makes of an entry file
entryModule(p) ==
  CASE p = "t.spec.js" -> "mT" [] p = "a.js" -> "mA" [] p = "b.js" -> "mB"
    [] OTHER -> "mC"

(***************************************************************************)
(* Dependencies.  The compiler gives every dependency object a constructor *)
(* name, the module it refers to (dep.module) and, for the harmony export  *)
(* dependencies, the module that holds the export (dep.originModule).      *)
(***************************************************************************)
Import(target) ==
  [ctor |-> "HarmonyImportDependency", module |-> target, originModule |-> NoModule]

Require(target) ==
  [ctor |-> "CommonJsRequireDependency", module |-> target, originModule |-> NoModule]

ExportSpecifier(holder) ==
  [ctor |-> "HarmonyExportSpecifierDependency", module |-> NoModule,
   originModule |-> holder]

ReExport(holder, target) ==
  [ctor |-> "HarmonyExportImportedSpecifierDependency", module |-> target,
   originModule |-> holder]

\* whether the host tracks the resource of m, or m is a vendor module on disk,
\* or a module the compiler makes without reading a file
Resolvable(m) ==
  \/ m = "mV"
  \/ resource(m) = ""
  \/ \E p \in SeqToSet(hostFiles) : fullPath(p) = resource(m)

\* a dependency whose request does not resolve has no module
Resolve(dep) ==
  IF dep.module # NoModule /\ ~Resolvable(dep.module)
  THEN [dep EXCEPT !.module = NoModule]
  ELSE dep

\* the dependency lists of the project the host runs: the test imports b.js,
\* which re-exports a.js, and requires a.js through a loader and a vendor file
DefaultGraph ==
  [m \in Modules |->
     CASE m = "mT" -> <<Import("mB"), Require("mA2"), Require("mV")>>
       [] m = "mB" -> <<ReExport("mB", "mA")>>
       [] m = "mC" -> <<ReExport("mC", "mA")>>
       [] m = "mA" -> <<ExportSpecifier("mA")>>
       [] m = "mA2" -> <<ExportSpecifier("mA2")>>
       [] OTHER -> <<>>]

\* the dependency lists the source text of m may give in other projects:
\* imports that come back to the importer, re-exports that come back to the
\* re-exporter, tracked files behind a vendor file or behind modules without
\* a resource
Sources(m) ==
  CASE m = "mT" -> {DefaultGraph[m], <<Require("mR"), Require("mS")>>,
                    <<Require("mV"), Require("mR")>>}
    [] m = "mB" -> {DefaultGraph[m], <<ReExport("mB", "mA"), Import("mT")>>}
    [] m = "mA" -> {DefaultGraph[m], <<ReExport("mA", "mB")>>}
    [] m = "mV" -> {DefaultGraph[m], <<Require("mA")>>}
    [] m = "mR" -> {<<Require("mA")>>, <<Require("mS")>>, <<Require("mR")>>}
    [] m = "mS" -> {<<Require("mB")>>, <<Require("mR")>>}
    [] OTHER -> {DefaultGraph[m]}

Graphs ==
  {[m \in Modules |->
      CASE m = "mT" -> t [] m = "mB" -> b [] m = "mA" -> a [] m = "mV" -> v
        [] m = "mR" -> r [] m = "mS" -> z [] OTHER -> DefaultGraph[m]] :
     t \in Sources("mT"), b \in Sources("mB"), a \in Sources("mA"),
     v \in Sources("mV"), r \in Sources("mR"), z \in Sources("mS")}

\* the dependency list the source text of m gives
Content(m) == moduleGraph[m]

\* m.dependencies
dependencies(m) == [i \in 1..Len(Content(m)) |-> Resolve(Content(m)[i])]

(***************************************************************************)
(* The compiler's make phase: starting from the entry modules it follows   *)
(* dep.module breadth first.  The module whose dependency first reaches a  *)
(* module becomes that module's issuer; an entry module has no issuer.     *)
(***************************************************************************)
RECURSIVE NewTargets(_, _)
NewTargets(deps, seen) ==
  IF deps = <<>> THEN <<>>
  ELSE LET t == Head(deps).module
       IN IF t = NoModule \/ t \in seen
          THEN NewTargets(Tail(deps), seen)
          ELSE <<t>> \o NewTargets(Tail(deps), seen \cup {t})

RECURSIVE Discover(_, _, _)
\* the modules new are reached first through a dependency of module m
Issue(m, new, queue, seen, iss) ==
  Discover(queue \o new, seen \o new,
           [x \in Modules |-> IF x \in SeqToSet(new) THEN m ELSE iss[x]])

Discover(queue, seen, iss) ==
  IF queue = <<>> THEN [modules |-> seen, issuer |-> iss]
  ELSE Issue(Head(queue), NewTargets(dependencies(Head(queue)), SeqToSet(seen)),
             Tail(queue), seen, iss)

\* the modules made of the entry files, in entry order
entryModules == [i \in 1..Len(_entryFiles) |-> entryModule(_entryFiles[i])]

\* the modules of the current compilation, in the order found, and their issuers
Compilation == Discover(entryModules, entryModules, [x \in Modules |-> NoModule])

\* m.issuer, for every module m
issuer == Compilation.issuer

\* the compiler rebuilds a module that is not in its cache, or whose resource
\* has no marker, or a marker newer than the cached build
needRebuild(m) ==
  \/ m \notin DOMAIN _compilationCache
  \/ /\ resource(m) # ""
     /\ \/ resource(m) \notin DOMAIN _compilationFileTimestamps
        \/ _compilationFileTimestamps[resource(m)] > _compilationCache[m]

\* Time passes between two runs: the markers and builds of the last run become
\* those of an earlier run; a build older than its marker stays older, every
\* other build is not older than its marker
agedTimestamps ==
  [r \in DOMAIN _compilationFileTimestamps |->
     IF _compilationFileTimestamps[r] = DateNow THEN EarlierDate
     ELSE _compilationFileTimestamps[r]]

agedCache ==
  [m \in DOMAIN _compilationCache |->
     IF /\ resource(m) \in DOMAIN _compilationFileTimestamps
        /\ _compilationFileTimestamps[resource(m)] > _compilationCache[m]
     THEN StaleBuild
     ELSE EarlierBuild]

\* the modules the compiler builds in this compile, in build order
ToBuild == SelectSeq(Compilation.modules, needRebuild)

\* every dependency object of the compilation
AllDeps == UNION {SeqToSet(dependencies(m)) : m \in Modules}

\* a build-module hook that records no module
hookIgnored(affected, m) == affected

\* the build-module hook

buildModuleHook(affected, m) == Append(affected, m)

RECURSIVE buildAll(_, _)
buildAll(affected, ms) ==
  IF ms = <<>> THEN affected
  ELSE buildAll(buildModuleHook(affected, Head(ms)), Tail(ms))

\* the compilation cache after the modules ms were built
cacheAfter(ms) ==
  [m \in DOMAIN _compilationCache \cup SeqToSet(ms) |->
     IF m \in SeqToSet(ms) THEN BuildNow ELSE _compilationCache[m]]

(***************************************************************************)
(* Module and file objects as the postprocessor reads them.                *)
(***************************************************************************)
resourceValue(m) == IF resource(m) = "" THEN Undefined ELSE Str(resource(m))

annotation(a) == IF a = "" THEN Undefined ELSE Str(a)

\* the fields of module m that the identity scheme reads
moduleOf(m) ==
  [id |-> id(m), resource |-> resourceValue(m),
   meta |-> annotation(aureliaMeta(m)), buildMeta |-> annotation(aureliaBuildMeta(m))]

undefinedFile == [defined |-> FALSE, path |-> "", test |-> FALSE]

\* the host's file object of path p; p = "" is the undefined file
fileOf(p) ==
  IF p = "" THEN undefinedFile ELSE [defined |-> TRUE, path |-> p, test |-> isTestPath(p)]

(***************************************************************************)
(* _getModuleId(m, file, isEntryFile)                                      *)
(***************************************************************************)
\* an identity scheme that tests the numeric compiler id before the entry file
getModuleIdNumericFirst(m, file, isEntryFile) ==
  LET testFile == file.defined /\ file.test
  IN IF Truthy(m.meta) THEN m.meta
     ELSE IF Truthy(m.buildMeta) THEN m.buildMeta
     ELSE IF testFile \/ ~isNumber(m.id) THEN m.resource
     ELSE m.id

_getModuleId(m, file, isEntryFile) ==
  LET testFile == file.defined /\ file.test
  IN IF Truthy(m.meta) THEN m.meta
     ELSE IF Truthy(m.buildMeta) THEN m.buildMeta
     ELSE IF testFile \/ ~isNumber(m.id) \/ isEntryFile THEN m.resource
     ELSE m.id

\* a wrapper that takes no file for an entry file
isEntryFileNever(p) == FALSE

\* _isEntryFile(file), with file given by its path ("" for undefined)
_isEntryFile(p) ==
  opts.entryPatterns # <<>> /\ p # "" /\ p \in SeqToSet(_entryFiles)

(***************************************************************************)
(* _traverseDependencies(deps, moduleGetter, onDependency, visitedDeps).   *)
(* The two getters of the source are named "module" (d => d.module) and    *)
(* "harmonyIssuer" (the origin module's issuer of a HarmonyExport*         *)
(* dependency).  onDependency only collects, so the traversal returns the  *)
(* list of modules it was called with, and the visited set.  The field     *)
(* visits lists, in order, the resource of every module for which the      *)
(* traversal got past the visited test.                                    *)
(***************************************************************************)
HarmonyExportName(ctor) ==
  ctor \in {"HarmonyExportSpecifierDependency",
            "HarmonyExportImportedSpecifierDependency"}

\* the getter dep => dep.module of the test dependencies
depModule == [dep \in AllDeps |-> dep.module]

\* the getter of the closure: the issuer of the origin module of a harmony
\* export dependency
harmonyIssuer ==
  [dep \in AllDeps |->
     IF HarmonyExportName(dep.ctor) /\ dep.originModule # NoModule
     THEN issuer[dep.originModule]
     ELSE NoModule]

\* self._allTrackedFiles[m.resource], as a path ("" when undefined)
trackedDepFile(m) ==
  IF resource(m) = "" THEN "" ELSE pathOfFull(resource(m), SeqToSet(_allTrackedFiles))

\* a visited key that tells apart two modules of one resource
depCompilerId(m) == id(m).s

\* depResourceId: m.resource || ''
depResourceId(m) == resource(m)

RECURSIVE _traverseDependencies(_, _, _)
\* the body of the loop for one dependency whose getter gives module m; the
\* nested call on m.dependencies runs before the rest of the list
visitDependency(m, rest, moduleGetter, acc) ==
  IF m = NoModule \/ depResourceId(m) \in acc.visitedDeps
  THEN _traverseDependencies(rest, moduleGetter, acc)
  ELSE _traverseDependencies(dependencies(m) \o rest, moduleGetter,
         [visitedDeps |-> acc.visitedDeps \cup {depResourceId(m)},
          onDependency |->
            IF trackedDepFile(m) # ""
            THEN Append(acc.onDependency, m)
            ELSE acc.onDependency,
          visits |-> Append(acc.visits, resource(m))])

_traverseDependencies(deps, moduleGetter, acc) ==
  IF deps = <<>> THEN acc
  ELSE visitDependency(moduleGetter[Head(deps)], Tail(deps), moduleGetter, acc)

noTraversal == [visitedDeps |-> {}, onDependency |-> <<>>, visits |-> <<>>]

(***************************************************************************)
(* _addHarmonyModulesAffectedDependencies(affectedModules, affectedFiles). *)
(* allAffectedModules is an object keyed by the numeric ids (its values    *)
(* come in ascending key order), allAffectedModulesList holds the modules  *)
(* without a numeric id.                                                   *)
(***************************************************************************)
\* the callback (m, f) => ... of the closure
addAffected(c, m) ==
  [c EXCEPT
     !.allAffectedModules =
        IF isNumber(id(m)) THEN Put(c.allAffectedModules, id(m).n, m) ELSE @,
     !.allAffectedModulesList = IF isNumber(id(m)) THEN @ ELSE Append(@, m),
     !.affectedFiles = @ \cup {trackedDepFile(m)}]

RECURSIVE addAllAffected(_, _)
addAllAffected(c, ms) ==
  IF ms = <<>> THEN c ELSE addAllAffected(addAffected(c, Head(ms)), Tail(ms))

\* the initial module m itself joins the closure
addInitial(c, m) ==
  [c EXCEPT
     !.allAffectedModules = IF isNumber(id(m)) THEN Put(@, id(m).n, m) ELSE @,
     !.allAffectedModulesList = IF isNumber(id(m)) THEN @ ELSE Append(@, m)]

\* the traversal t from one initial module has called back for t.onDependency
afterTraversal(c, t) ==
  addAllAffected([c EXCEPT !.visitedDeps = t.visitedDeps, !.visits = t.visits],
                 t.onDependency)

\* _.each(affectedModules, m => ...)
RECURSIVE closureLoop(_, _, _)
closureLoop(c, ms, moduleGetter) ==
  IF ms = <<>> THEN c
  ELSE closureLoop(
         afterTraversal(addInitial(c, Head(ms)),
           _traverseDependencies(dependencies(Head(ms)), moduleGetter,
             [visitedDeps |-> c.visitedDeps, onDependency |-> <<>>,
              visits |-> c.visits])),
         Tail(ms), moduleGetter)

\* _.values(obj) of an object with integer keys: ascending key order
RECURSIVE valuesByKey(_)
valuesByKey(obj) ==
  IF DOMAIN obj = {} THEN <<>>
  ELSE LET k == CHOOSE x \in DOMAIN obj : \A y \in DOMAIN obj : x <= y
       IN <<obj[k]>> \o valuesByKey([x \in DOMAIN obj \ {k} |-> obj[x]])

\* the return value, and the affectedFiles object the callbacks wrote to
closureResult(c) ==
  [modules |-> c.allAffectedModulesList \o valuesByKey(c.allAffectedModules),
   affectedFiles |-> c.affectedFiles, visits |-> c.visits]

_addHarmonyModulesAffectedDependencies(affectedModules, files) ==
  closureResult(closureLoop([allAffectedModules |-> [x \in {} |-> NoModule],
                             allAffectedModulesList |-> <<>>,
                             visitedDeps |-> {},
                             affectedFiles |-> files,
                             visits |-> <<>>],
                            affectedModules, harmonyIssuer))

(***************************************************************************)
(* The order field of an artifact: a number, undefined or Infinity.        *)
(***************************************************************************)
Order(n) == [t |-> "num", n |-> n]

NoOrder == [t |-> "undef", n |-> 0]

Infinity == [t |-> "inf", n |-> 0]

(***************************************************************************)
(* The per-module loop of the emit phase.  st holds what the loop writes:  *)
(* the created files and the instance's fields.                            *)
(***************************************************************************)
\* a path scheme that puts the numeric id into the path of a test file too
emissionPathIdForTests(m, trackedFile) ==
  IF trackedFile # ""
  THEN trackedFile \o (IF isNumber(id(m)) THEN "." \o ToKey(id(m)) ELSE "") \o ".wbp.js"
  ELSE "__modules/" \o ToKey(id(m)) \o ".js"

\* the path of the artifact of module m
emissionPath(m, trackedFile) ==
  IF trackedFile # ""
  THEN trackedFile
         \o (IF isNumber(id(m)) /\ ~isTestPath(trackedFile)
             THEN "." \o ToKey(id(m)) ELSE "")
         \o ".wbp.js"
  ELSE "__modules/" \o ToKey(id(m)) \o ".js"

\* depIds of a test module: the ids of the tracked files its dependencies reach
depIdsOf(ms) == [i \in 1..Len(ms) |-> fileId(trackedDepFile(ms[i]))]

testDepIds(m) ==
  depIdsOf(_traverseDependencies(dependencies(m), depModule, noTraversal).onDependency)

\* a registration that does not ask for the bootstrap script
registerWithoutLoader(st, moduleId, m) ==
  IF ~Truthy(Get(st._moduleIds, ToKey(moduleId)))
  THEN [st EXCEPT !._moduleIds = Put(@, ToKey(moduleId), id(m))]
  ELSE st

\* the registration of an identity: a falsy registry entry counts as unknown
registerModuleId(st, moduleId, m) ==
  IF ~Truthy(Get(st._moduleIds, ToKey(moduleId)))
  THEN [st EXCEPT !._moduleIds = Put(@, ToKey(moduleId), id(m)),
                  !._loaderEmitRequired = TRUE]
  ELSE st

\* the file object wallaby.createFile gets for module m; the identity
\* _getSource writes into the wrapped code is computed with _isEntryFile
createdFile(m, trackedFile) ==
  [path |-> emissionPath(m, trackedFile),
   original |-> trackedFile,
   module |-> m,
   id |-> _getModuleId(moduleOf(m), fileOf(trackedFile), _isEntryFile(trackedFile)),
   order |-> IF trackedFile # "" /\ trackedFile \in SeqToSet(_entryFiles)
                /\ opts.entryPatterns # <<>>
             THEN Order(fileOrder(trackedFile)) ELSE NoOrder]

\* the test dependencies, the created file and the pinned marker
createModuleFile(st, m, trackedFile) ==
  [st EXCEPT
     !._testDependencies =
        IF trackedFile # "" /\ isTestPath(trackedFile)
        THEN Put(@, fileId(trackedFile), testDepIds(m)) ELSE @,
     !.createFilePromises = Append(@, createdFile(m, trackedFile)),
     !._compilationFileTimestamps =
        IF resource(m) # "" /\ trackedFile = ""
        THEN Put(@, resource(m), Sentinel) ELSE @]

\* the path tables of the identity moduleId
writeTables(st, m, trackedFile, moduleId) ==
  [st EXCEPT
     !._modulePathById =
        IF opts.emitModulePaths THEN Put(@, ToKey(moduleId), resourceValue(m)) ELSE @,
     !._moduleIdByPath =
        IF trackedFile # "" THEN Put(@, fullPath(trackedFile), moduleId) ELSE @,
     !._testFilePathById =
        IF trackedFile # "" /\ isTestPath(trackedFile)
        THEN Put(@, ToKey(id(m)), trackedFile) ELSE @]

\* what the loop does with the identity moduleId of module m
recordModule(st, m, trackedFile, moduleId) ==
  writeTables(registerModuleId(st, moduleId, m), m, trackedFile, moduleId)

\* the loop body for module m whose tracked file is trackedFile ("" if none)
emitTracked(st, m, trackedFile) ==
  recordModule(createModuleFile(st, m, trackedFile), m, trackedFile,
    _getModuleId(moduleOf(m), fileOf(trackedFile),
                 trackedFile # "" /\ trackedFile \in SeqToSet(_entryFiles)))

\* m.resource && affectedFiles[m.resource]
emitModule(st, m, files) ==
  emitTracked(st, m, IF resource(m) = "" THEN "" ELSE pathOfFull(resource(m), files))

RECURSIVE emitLoop(_, _, _)
emitLoop(st, ms, files) ==
  IF ms = <<>> THEN st
  ELSE emitLoop(emitModule(st, Head(ms), files), Tail(ms), files)

\* the bootstrap script: the loader with the serialized tables
loaderScript(st) ==
  [order |-> Order(-1), path |-> "wallaby-webpack.js",
   deps |-> st._moduleIds,
   hasDepPaths |-> opts.emitModulePaths,
   depPaths |-> IF opts.emitModulePaths THEN st._modulePathById ELSE EmptyObj,
   testFilePathById |-> st._testFilePathById]

\* the non-test entry files, in entry order
requiredEntries == SelectSeq(_entryFiles, LAMBDA p : ~isTestPath(p))

\* the trailer script: one require per non-test entry file, in entry order
entryScript(st) ==
  [order |-> IF opts.preserveEntryFileLoadOrder
             THEN Order(fileOrder(_entryFiles[1])) ELSE Infinity,
   path |-> "wallaby_webpack_entry.js",
   files |-> requiredEntries,
   requires |-> [i \in 1..Len(requiredEntries) |->
                   Get(st._moduleIdByPath, fullPath(requiredEntries[i]))]]

\* the loader and trailer scripts after the per-module loop left st
emitScripts(st, files) ==
  [st |-> st,
   affectedFiles |-> files,
   loaderFile |-> IF st._loaderEmitRequired THEN <<loaderScript(st)>> ELSE <<>>,
   entryFile |-> IF st._loaderEmitRequired /\ opts.entryPatterns # <<>>
                    /\ _entryFiles # <<>>
                 THEN <<entryScript(st)>> ELSE <<>>]

\* the per-module loop over the closure cl
emitModules(cl) ==
  emitScripts(emitLoop([createFilePromises |-> <<>>,
                        _compilationFileTimestamps |-> _compilationFileTimestamps,
                        _moduleIds |-> _moduleIds,
                        _modulePathById |-> _modulePathById,
                        _moduleIdByPath |-> _moduleIdByPath,
                        _testFilePathById |-> _testFilePathById,
                        _testDependencies |-> _testDependencies,
                        _loaderEmitRequired |-> _loaderEmitRequired],
                       cl.modules, cl.affectedFiles),
              cl.affectedFiles)

\* the whole then-callback of the run on the affected modules
emitPhase(affected) ==
  emitModules(IF ~_fullRun
              THEN _addHarmonyModulesAffectedDependencies(affected, affectedFiles)
              ELSE [modules |-> affected, affectedFiles |-> affectedFiles])

(***************************************************************************)
(* Entry matching of a full run.                                           *)
(***************************************************************************)
\* index (from 0) of the first pattern the path satisfies, -1 when none:
\* what _.find leaves in file.patternIndex of a file it keeps
RECURSIVE firstMatch(_, _, _)
firstMatch(p, patterns, i) ==
  IF i > Len(patterns) THEN -1
  ELSE IF mm(p, patterns[i]) THEN i - 1
  ELSE firstMatch(p, patterns, i + 1)

patternIndex(p) == firstMatch(p, opts.entryPatterns, 1)

\* an insertion that puts a file before the files of its own pattern index
insertBeforeEqual(sorted, p) ==
  LET before == SelectSeq(sorted, LAMBDA q : patternIndex(q) < patternIndex(p))
      after == SelectSeq(sorted, LAMBDA q : patternIndex(q) >= patternIndex(p))
  IN before \o <<p>> \o after

\* _.sortBy(files, 'patternIndex'): a stable sort
RECURSIVE insertByIndex(_, _)
insertByIndex(sorted, p) ==
  IF sorted = <<>> THEN <<p>>
  ELSE IF patternIndex(Head(sorted)) <= patternIndex(p)
       THEN <<Head(sorted)>> \o insertByIndex(Tail(sorted), p)
       ELSE <<p>> \o sorted

RECURSIVE sortByPatternIndex(_, _)
sortByPatternIndex(sorted, files) ==
  IF files = <<>> THEN sorted
  ELSE sortByPatternIndex(insertByIndex(sorted, Head(files)), Tail(files))

\* an entry selection that keeps only the files of the first pattern
entryFilesOfFirstPattern(allFiles) ==
  IF opts.entryPatterns = <<>>
  THEN SelectSeq(allFiles, isTestPath)
  ELSE SelectSeq(allFiles, LAMBDA p : mm(p, opts.entryPatterns[1]))

\* self._entryFiles of a full run over the tracked files allFiles
entryFilesOf(allFiles) ==
  IF opts.entryPatterns = <<>>
  THEN SelectSeq(allFiles, isTestPath)
  ELSE sortByPatternIndex(<<>>, SelectSeq(allFiles, LAMBDA p : patternIndex(p) >= 0))

\* a full-run branch that forgets to reset the file timestamps
fileTimestampsKept(full) == _compilationFileTimestamps

\* self._compilationFileTimestamps when the invalidation starts: reset by the
\* full-run branch, kept by an incremental run
fileTimestampsOf(full) ==
  IF full THEN [x \in {} |-> 0] ELSE _compilationFileTimestamps

\* a bug that invalidates every tracked file instead of the affected ones
invalidateAllTracked(stamps, files) ==
  [r \in DOMAIN stamps \cup {fullPath(p) : p \in SeqToSet(hostFiles)} |-> DateNow]

\* cache invalidation for changed files: each gets the marker +new Date()
invalidate(stamps, files) ==
  [r \in DOMAIN stamps \cup {fullPath(p) : p \in files} |->
     IF r \in {fullPath(p) : p \in files} THEN DateNow ELSE stamps[r]]

(***************************************************************************)
(* Errors and the log.                                                     *)
(***************************************************************************)
\* the errors the compiler may pass to its callback or throw
CompilerErrors == {"EIO", "invalid configuration"}

\* the errors a createFile promise may reject with
CreateFileErrors == {"createFile failed"}

\* lastCompilation.errors: strings and error objects
Diagnostics ==
  { <<>>,
    <<[t |-> "string", s |-> "Module not found", message |-> "", stack |-> ""],
      [t |-> "error", s |-> "", message |-> "Unexpected token", stack |-> " at parse"]>> }

\* ((typeof e === 'string') && e) || e && ((e.message || '') + (e.stack || ''))
errorText(e) == IF e.t = "string" THEN e.s ELSE e.message \o e.stack

\* a logging loop that stops after the first diagnostic
logFirstError(errs) == IF errs = <<>> THEN <<>> ELSE <<errorText(errs[1])>>

\* _.each(lastCompilation.errors, e => logger.error(...))
logErrors(errs) == [i \in 1..Len(errs) |-> errorText(errs[i])]

\* the entry patterns left in entryPatternsNotMatchingAnyFiles: those that are
\* the first matching pattern of no tracked file
notMatching(allFiles) ==
  SelectSeq(opts.entryPatterns,
            LAMBDA pat : \A p \in SeqToSet(allFiles) :
                           patternIndex(p) < 0
                           \/ opts.entryPatterns[patternIndex(p) + 1] # pat)

\* logger.error for every pattern left
patternLog(allFiles) ==
  [i \in 1..Len(notMatching(allFiles)) |->
     "Specified entry pattern \"" \o notMatching(allFiles)[i] \o "\" does not match any file."]

\* a rejection that replaces the compiler's error by a generic one
rejectWithGeneric(err) == "compilation failed"

\* reject(err)
rejectWith(err) == err

\* the four tables the compile works on
tables ==
  [CompilationCache |-> _compilationCache,
   FileTimestamps |-> _compilationFileTimestamps,
   registry |-> _moduleIds,
   TestDependencyIndex |-> _testDependencies]

\* a test that takes the full-run branch for every run
isFullRunAlways(anyFilesAdded, anyFilesDeleted) == TRUE

\* !self._compiler || wallaby.anyFilesAdded || wallaby.anyFilesDeleted
isFullRun(anyFilesAdded, anyFilesDeleted) ==
  ~_compiler \/ anyFilesAdded \/ anyFilesDeleted

(***************************************************************************)
(* The run: the function createPostprocessor returns, up to the promise.   *)
(* The host passes its file list, the files it reports changed, and the    *)
(* added and deleted flags; a file's content changes only when the host    *)
(* reports the file.                                                       *)
(***************************************************************************)
StartRun(allFiles, changed) ==
  LET anyFilesAdded == SeqToSet(allFiles) \ SeqToSet(hostFiles) # {}
      anyFilesDeleted == SeqToSet(hostFiles) \ SeqToSet(allFiles) # {}
      full == isFullRun(anyFilesAdded, anyFilesDeleted)
      files == IF full THEN SeqToSet(allFiles) ELSE changed
      stamps == fileTimestampsOf(full)
  IN /\ pc = "idle"
     /\ allFiles = hostFiles \/ anyFilesAdded \/ anyFilesDeleted
     /\ full => changed = SeqToSet(allFiles)
     /\ hostFiles' = allFiles
     /\ wallaby' = [affectedFiles |-> changed, anyFilesAdded |-> anyFilesAdded,
                    anyFilesDeleted |-> anyFilesDeleted]
     /\ pc' = "compiling"
     /\ affectedFiles' = files
     /\ _fullRun' = full
     /\ _compiler' = TRUE
     /\ _compilationFileTimestamps' = invalidate(stamps, files)
     /\ moduleFiles' = <<>>
     /\ loaderFile' = <<>>
     /\ entryFile' = <<>>
     /\ pending' = 0
     /\ IF full
        THEN /\ _allTrackedFiles' = allFiles
             /\ _entryFiles' = entryFilesOf(allFiles)
             /\ _affectedModules' = <<>>
             /\ _moduleIds' = EmptyObj
             /\ _compilationCache' = [x \in {} |-> 0]
             /\ _testDependencies' = [x \in {} |-> <<>>]
             /\ _testFilePathById' = [x \in {} |-> ""]
             /\ _loaderEmitRequired' = TRUE
             /\ UNCHANGED <<_moduleIdByPath, _modulePathById>>
        ELSE /\ UNCHANGED <<_compilationCache, _allTrackedFiles, _entryFiles, _affectedModules, _moduleIds,
                            _testDependencies, _testFilePathById,
                            _loaderEmitRequired, _moduleIdByPath, _modulePathById>>
     /\ errors' = <<>>
     /\ logged' = IF full THEN patternLog(allFiles) ELSE <<>>
     /\ rejection' = <<>>
     /\ fulfilment' = <<>>
     /\ atStart' = <<tables>>
     /\ received' = IF full THEN [received EXCEPT !.identities = {}] ELSE received
     /\ edited \subseteq files
     /\ edited' = {}
     /\ UNCHANGED <<moduleGraph, traversal, probe, sandbox, opts, result, failures>>

\* The compiler fails after building the modules built, a prefix of the stale
\* ones: the callback gets the error (or compile throws) and the promise rejects.
Reject(built, source, err) ==
  /\ rejection' = <<[source |-> source, raised |-> err, error |-> rejectWith(err)]>>
  /\ UNCHANGED <<errors, logged, fulfilment, atStart>>
  /\ _affectedModules' = buildAll(_affectedModules, built)
  /\ _compilationCache' = cacheAfter(built)
  /\ pc' = "settled"
  /\ result' = "rejected"
  /\ failures' = failures + 1
  /\ received' = [received EXCEPT !.lacking = @ \/ _loaderEmitRequired]
  /\ UNCHANGED <<edited, moduleGraph, traversal, probe, sandbox, opts, hostFiles, wallaby>>
  /\ UNCHANGED <<_compiler, _loaderEmitRequired, _fullRun, _compilationFileTimestamps,
                 _moduleIds, _moduleIdByPath, _modulePathById, _allTrackedFiles,
                 _entryFiles, _testDependencies, _testFilePathById>>
  /\ UNCHANGED runVars

CompileFail ==
  /\ pc = "compiling"
  /\ failures < MaxFailures
  /\ \E toBuild \in {ToBuild} :
       \E k \in 0..Len(toBuild), source \in {"callback", "throw"}, err \in CompilerErrors :
         Reject(SubSeq(toBuild, 1, k), source, err)

\* the keys of the identities under which the created files register
createdIdentities(files) == {ToKey(files[i].id) : i \in 1..Len(files)}

\* The then-callback has emitted e
Emit(e) ==
  /\ affectedFiles' = e.affectedFiles
  /\ moduleFiles' = e.st.createFilePromises
  /\ loaderFile' = e.loaderFile
  /\ entryFile' = e.entryFile
  /\ pending' = Len(e.st.createFilePromises) + Len(e.loaderFile) + Len(e.entryFile)
  /\ _compilationFileTimestamps' = e.st._compilationFileTimestamps
  /\ _moduleIds' = e.st._moduleIds
  /\ _modulePathById' = e.st._modulePathById
  /\ _moduleIdByPath' = e.st._moduleIdByPath
  /\ _testFilePathById' = e.st._testFilePathById
  /\ _testDependencies' = e.st._testDependencies
  /\ _loaderEmitRequired' = FALSE
  /\ _affectedModules' = <<>>
  /\ received' = [identities |-> received.identities \cup createdIdentities(e.st.createFilePromises),
                  loader |-> IF e.loaderFile # <<>> THEN e.loaderFile ELSE received.loader,
                  lacking |-> received.lacking]

\* the compiler has built the modules built without an error
Built(built) ==
  /\ _compilationCache' = cacheAfter(built)
  /\ \E e \in {emitPhase(buildAll(_affectedModules, built))} : Emit(e)

\* The compiler builds every stale module and calls back without an error:
\* the promise resolves and the then-callback emits.
CompileSucceed ==
  /\ pc = "compiling"
  /\ \E built \in {ToBuild} : Built(built)
  /\ \E errs \in Diagnostics :
       /\ errors' = errs
       /\ logged' = logged \o logErrors(errs)
  /\ UNCHANGED <<rejection, fulfilment, atStart>>
  /\ pc' = "emitting"
  /\ UNCHANGED <<edited, moduleGraph, traversal, probe, sandbox, opts, hostFiles, failures, wallaby, result>>
  /\ UNCHANGED <<_compiler, _fullRun, _allTrackedFiles, _entryFiles>>

\* a then-callback that does not wait for the created files
noFilesAwaited(n) == TRUE

\* Promise.all(createFilePromises) resolves when none of the n promises that
\* are not yet settled is left
allFilesCreated(n) == n = 0

\* the host has created one of the files: its createFile promise resolves
FileCreated ==
  /\ pc = "emitting"
  /\ pending > 0
  /\ pending' = pending - 1
  /\ UNCHANGED <<affectedFiles, moduleFiles, loaderFile, entryFile>>
  /\ UNCHANGED <<envVars, instVars, obsVars>>
  /\ UNCHANGED <<edited, moduleGraph, traversal, probe, sandbox, received>>

\* Promise.all over the created files resolves: the run resolves with an
\* object that holds the test dependencies
FilesCreated ==
  /\ pc = "emitting"
  /\ allFilesCreated(pending)
  /\ pc' = "settled"
  /\ result' = "resolved"
  /\ fulfilment' = <<[testDependencies |-> _testDependencies]>>
  /\ received' = [received EXCEPT !.lacking = @ /\ loaderFile = <<>>]
  /\ UNCHANGED <<errors, logged, rejection, atStart>>
  /\ UNCHANGED <<edited, moduleGraph, traversal, probe, sandbox, opts, hostFiles, failures, wallaby>>
  /\ UNCHANGED instVars
  /\ UNCHANGED runVars

\* one of the createFile promises rejects: the run rejects
CreateFileFailed ==
  /\ pc = "emitting"
  /\ pending > 0
  /\ pending' = pending - 1
  /\ pc' = "settled"
  /\ result' = "rejected"
  /\ \E err \in CreateFileErrors :
       rejection' = <<[source |-> "createFile", raised |-> err, error |-> err]>>
  /\ received' = [received EXCEPT !.lacking = @ \/ loaderFile # <<>>]
  /\ UNCHANGED <<errors, logged, fulfilment, atStart>>
  /\ UNCHANGED <<edited, moduleGraph, traversal, probe, sandbox, opts, hostFiles, failures, wallaby>>
  /\ UNCHANGED instVars
  /\ UNCHANGED <<affectedFiles, moduleFiles, loaderFile, entryFile>>

\* The handler has returned and time passes before the next run: the handler's
\* locals are gone, and the markers and builds of this run are earlier ones.
Return ==
  /\ pc = "settled"
  /\ pc' = "idle"
  /\ wallaby' = [affectedFiles |-> {}, anyFilesAdded |-> FALSE, anyFilesDeleted |-> FALSE]
  /\ affectedFiles' = {}
  /\ moduleFiles' = <<>>
  /\ loaderFile' = <<>>
  /\ entryFile' = <<>>
  /\ pending' = 0
  /\ _compilationFileTimestamps' = agedTimestamps
  /\ _compilationCache' = agedCache
  /\ errors' = <<>>
  /\ logged' = <<>>
  /\ rejection' = <<>>
  /\ fulfilment' = <<>>
  /\ atStart' = <<>>
  /\ UNCHANGED <<edited, moduleGraph, traversal, probe, sandbox, received, opts, hostFiles, failures, result>>
  /\ UNCHANGED <<_compiler, _loaderEmitRequired, _fullRun, _affectedModules, _moduleIds,
                 _moduleIdByPath, _modulePathById, _allTrackedFiles, _entryFiles,
                 _testDependencies, _testFilePathById>>

(***************************************************************************)
(* The execution sandbox.  The bootstrap script defines                    *)
(* window.__moduleBundler with an empty module cache (cache: identity ->   *)
(* [factory, deps]) and an empty instance table (moduleCache), then sets   *)
(* the tables deps, depPaths and testFilePathById.  A wrapped artifact     *)
(* registers its factory; require and loadTests run the prelude, whose     *)
(* function s resolves an identity.  The sandbox is a browser page: it has *)
(* no global function require for the prelude to delegate to.  The fields  *)
(* op, arg, calls, ran, running, reentered and thrown describe the last    *)
(* call: the identities resolved, those whose factory was invoked, those   *)
(* whose factory has not returned, those resolved while their factory was  *)
(* executing, and the error that ended the call.                           *)
(***************************************************************************)
NoSandbox ==
  [booted |-> FALSE, artifacts |-> <<>>, loadedTests |-> <<>>,
   hasDepPaths |-> FALSE,
   deps |-> EmptyObj, depPaths |-> EmptyObj, testFilePathById |-> [x \in {} |-> ""],
   cache |-> [x \in {} |-> ""], moduleCache |-> [x \in {} |-> [loaded |-> FALSE]],
   invoked |-> [x \in {} |-> 0],
   op |-> "none", arg |-> Undefined, calls |-> {}, ran |-> {},
   running |-> {}, reentered |-> {}, thrown |-> <<>>]

\* the wrapped artifact of module m emitted for the tracked file f ("" when
\* the loop found no tracked file), as _wrapSourceFile writes it
wrapped(m, f, isEntryFile) ==
  [id |-> _getModuleId(moduleOf(m), fileOf(f), isEntryFile), module |-> m, file |-> f,
   path |-> emissionPath(m, f)]

\* self._moduleIds after the loop registered the artifacts arts in turn: an
\* identity whose registered value is falsy counts as unknown
RECURSIVE registerAll(_, _)
registerAll(deps, arts) ==
  IF arts = <<>> THEN deps
  ELSE registerAll(IF ~Truthy(Get(deps, ToKey(Head(arts).id)))
                   THEN Put(deps, ToKey(Head(arts).id), id(Head(arts).module))
                   ELSE deps,
                   Tail(arts))

\* self._modulePathById after the loop recorded the artifacts arts in turn
RECURSIVE pathsOfAll(_, _)
pathsOfAll(paths, arts) ==
  IF arts = <<>> THEN paths
  ELSE pathsOfAll(Put(paths, ToKey(Head(arts).id), resourceValue(Head(arts).module)),
                  Tail(arts))

\* self._testFilePathById after the loop recorded the artifacts arts in turn
RECURSIVE testPathsOfAll(_, _)
testPathsOfAll(paths, arts) ==
  IF arts = <<>> THEN paths
  ELSE testPathsOfAll(IF Head(arts).file # "" /\ isTestPath(Head(arts).file)
                      THEN Put(paths, ToKey(id(Head(arts).module)), Head(arts).file)
                      ELSE paths,
                      Tail(arts))

\* the scripts a sandbox may fetch: the artifacts, in the order emitted, and
\* the tables of the bootstrap emitted with them
bundle(arts, emitModulePaths) ==
  [artifacts |-> arts,
   deps |-> registerAll(EmptyObj, arts),
   hasDepPaths |-> emitModulePaths,
   depPaths |-> IF emitModulePaths THEN pathsOfAll(EmptyObj, arts) ELSE EmptyObj,
   testFilePathById |-> testPathsOfAll([x \in {} |-> ""], arts)]

\* the artifacts of a resolved full run over t.spec.js, a.js and b.js, in the
\* order the compiler built the modules; entries are the entry files
fullRunArtifacts(entries) ==
  IF "a.js" \in entries
  THEN << wrapped("mA", "a.js", TRUE),
          wrapped("mT", "t.spec.js", "t.spec.js" \in entries),
          wrapped("mB", "b.js", "b.js" \in entries),
          wrapped("mA2", "a.js", TRUE),
          wrapped("mV", "", FALSE) >>
  ELSE << wrapped("mT", "t.spec.js", "t.spec.js" \in entries),
          wrapped("mB", "b.js", "b.js" \in entries),
          wrapped("mA2", "a.js", FALSE),
          wrapped("mV", "", FALSE),
          wrapped("mA", "a.js", FALSE) >>

\* the bundles the postprocessor can have emitted under the options opts.
\* Without entry patterns there is also the bundle of the runs: full run
\* resolved, a run changing t.spec.js rejected by the compiler, a run with no
\* change resolved, which emits the test module with no tracked file.
Bundles ==
  IF opts.entryPatterns = <<>>
  THEN { bundle(fullRunArtifacts({"t.spec.js"}), opts.emitModulePaths),
         bundle(fullRunArtifacts({"t.spec.js"}) \o <<wrapped("mT", "", FALSE)>>,
                opts.emitModulePaths) }
  ELSE { bundle(fullRunArtifacts({p \in {"t.spec.js", "a.js", "b.js"} :
                                    patternIndex(p) >= 0}),
                opts.emitModulePaths) }

\* the compiler ids the compiled code of module m requires when its factory
\* runs, in source order
requires(m) ==
  LET deps == SelectSeq(Content(m), LAMBDA dep : dep.module # NoModule)
  IN [i \in 1..Len(deps) |-> id(deps[i].module)]

\* the error thrown for a test file resolved by its compiler id
duplicateTestError(tfp) ==
  [code |-> "", test |-> tfp, module |-> "", annotation |-> <<>>]

\* the error thrown for an identity nothing registered; the message is
\* annotated with depPaths[o] when the bootstrap defined depPaths
moduleNotFound(sb, o) ==
  [code |-> "MODULE_NOT_FOUND", test |-> "", module |-> ToKey(o),
   annotation |-> IF sb.hasDepPaths THEN <<Get(sb.depPaths, ToKey(o))>> ELSE <<>>]

\* a branch that would leave an instance record behind for the unknown identity
unknownModuleRecorded(sb, o) ==
  [sb EXCEPT !.moduleCache = Put(@, ToKey(o), [loaded |-> FALSE]),
             !.thrown = <<moduleNotFound(sb, o)>>]

\* the branch of s for an identity with neither instance record nor factory
unknownModule(sb, o) ==
  IF ToKey(o) \in DOMAIN sb.testFilePathById /\ sb.testFilePathById[ToKey(o)] # ""
  THEN [sb EXCEPT !.thrown = <<duplicateTestError(sb.testFilePathById[ToKey(o)])>>]
  ELSE [sb EXCEPT !.thrown = <<moduleNotFound(sb, o)>>]

\* var l = n[o] = {exports: exp, ..., loaded: false} and the call of t[o][0]
started(sb, o) ==
  [sb EXCEPT !.moduleCache = Put(@, ToKey(o), [loaded |-> FALSE]),
             !.invoked = Put(@, ToKey(o),
                             IF ToKey(o) \in DOMAIN @ THEN @[ToKey(o)] + 1 ELSE 1),
             !.ran = @ \cup {ToKey(o)},
             !.running = @ \cup {ToKey(o)}]

\* a completion that marks the record loaded also when the factory threw
finishedAlways(sb, o) ==
  [sb EXCEPT !.moduleCache = Put(@, ToKey(o), [loaded |-> TRUE]),
             !.running = IF sb.thrown # <<>> THEN @ ELSE @ \ {ToKey(o)}]

\* l.l = true; l.loaded = true, reached only when the factory returned
finished(sb, o) ==
  IF sb.thrown # <<>> THEN sb
  ELSE [sb EXCEPT !.moduleCache = Put(@, ToKey(o), [loaded |-> TRUE]),
                  !.running = @ \ {ToKey(o)}]

\* the argument rq passes to s for the compiler id e: n ? n : e
translated(sb, e) ==
  IF Truthy(Get(sb.deps, ToKey(e))) THEN Get(sb.deps, ToKey(e)) ELSE e

\* a lookup that would take only a loaded instance record for one
instantiatedAndLoaded(sb, o) ==
  ToKey(o) \in DOMAIN sb.moduleCache /\ sb.moduleCache[ToKey(o)].loaded

\* whether s finds an instance record for o
instantiated(sb, o) == ToKey(o) \in DOMAIN sb.moduleCache

\* function s of the prelude: the sandbox after s(o).  A thrown error is in
\* the field thrown, and ends every call that is under way.
RECURSIVE s(_, _), factory(_, _)
s(sb, o) ==
  IF instantiated(sb, o)
  THEN [sb EXCEPT !.calls = @ \cup {ToKey(o)},
                  !.reentered = IF ToKey(o) \in sb.running
                                THEN @ \cup {ToKey(o)} ELSE @]
  ELSE IF ToKey(o) \notin DOMAIN sb.cache
       THEN unknownModule([sb EXCEPT !.calls = @ \cup {ToKey(o)}], o)
       ELSE finished(factory(started([sb EXCEPT !.calls = @ \cup {ToKey(o)}], o),
                             requires(sb.cache[ToKey(o)])),
                     o)

\* the body of a factory: it requires the compiler ids es through rq in turn
factory(sb, es) ==
  IF es = <<>> \/ sb.thrown # <<>> THEN sb
  ELSE factory(s(sb, translated(sb, Head(es))), Tail(es))

\* the loop for (o = 0; o < r.length; o++) s(r[o]) over the entry ids r
RECURSIVE entries(_, _)
entries(sb, r) ==
  IF r = <<>> \/ sb.thrown # <<>> THEN sb
  ELSE entries(s(sb, Head(r)), Tail(r))

\* the sandbox at the start of a call op(arg)
called(sb, op, arg) ==
  [sb EXCEPT !.op = op, !.arg = arg, !.calls = {}, !.ran = {}, !.running = {},
             !.reentered = {}, !.thrown = <<>>]

\* the fixed suffix of the artifact of a tracked file
WrappedSuffix == ".wbp.js"

\* the names an artifact of a tracked file can have in front of the suffix
Stems == Paths \cup {p \o "." \o NumStr(n) : p \in Paths, n \in 0..5}

\* test.substr(-7) === ".wbp.js" ? test.substr(0, test.length - 7): the name
\* without the suffix (0 or 1)
stripSuffix(test) ==
  IF \E stem \in Stems : stem \o WrappedSuffix = test
  THEN <<CHOOSE stem \in Stems : stem \o WrappedSuffix = test>>
  ELSE <<>>

\* the test ids loadTests computes from wallaby.loadedTests, in list order
RECURSIVE testIds(_)
testIds(loadedTests) ==
  IF loadedTests = <<>> THEN <<>>
  ELSE (IF stripSuffix(Head(loadedTests)) # <<>>
        THEN <<Str(BaseDir \o stripSuffix(Head(loadedTests))[1])>>
        ELSE <<>>)
       \o testIds(Tail(loadedTests))

\* the identities a caller outside the bundle passes to require
RequireIds == {Str("/t.spec.js"), Str("/a.js"), Num(2), Undefined}

\* the compiler ids compiled code passes to __webpack_require__
CompilerIds == {Num(0), Num(1), Num(2), Num(4), Num(5)}

\* everything outside the sandbox
hostVars ==
  <<envVars, instVars, runVars, obsVars, received, probe, moduleGraph, traversal,
    edited>>

\* the page fetches the bootstrap script of bundle b
loadBootstrap(b) ==
  /\ ~sandbox.booted
  /\ sandbox' = [NoSandbox EXCEPT !.booted = TRUE, !.artifacts = b.artifacts,
                                  !.hasDepPaths = b.hasDepPaths, !.deps = b.deps,
                                  !.depPaths = b.depPaths,
                                  !.testFilePathById = b.testFilePathById,
                                  !.op = "bootstrap"]
  /\ UNCHANGED hostVars

\* an artifact that would resolve its own identity when fetched
registeredAndResolved(sb, a) ==
  s([sb EXCEPT !.cache = Put(@, ToKey(a.id), a.module)], a.id)

\* the registration a wrapped artifact performs when the page fetches it
registered(sb, a) ==
  [sb EXCEPT !.cache = Put(@, ToKey(a.id), a.module)]

\* the page fetches the wrapped artifact a
loadArtifact(a) ==
  /\ sandbox.booted
  /\ sandbox' = [registered(called(sandbox, "load", a.id), a) EXCEPT
                   !.loadedTests = IF a.file # "" /\ isTestPath(a.file)
                                      /\ a.path \notin SeqToSet(@)
                                   THEN Append(@, a.path) ELSE @]
  /\ UNCHANGED hostVars

\* window.__moduleBundler.require(m)
require(m) ==
  /\ sandbox.booted
  /\ sandbox' = entries(called(sandbox, "require", m), <<m>>)
  /\ UNCHANGED hostVars

\* window.__moduleBundler.loadTests(), once the receiver is ready
loadTests ==
  /\ sandbox.booted
  /\ sandbox.loadedTests # <<>>
  /\ sandbox' = entries(called(sandbox, "loadTests", Undefined),
                        testIds(sandbox.loadedTests))
  /\ UNCHANGED hostVars

\* compiled code of the instantiated module o calls __webpack_require__(e)
rq(o, e) ==
  /\ sandbox.booted
  /\ o \in DOMAIN sandbox.moduleCache
  /\ sandbox' = s(called(sandbox, "rq", e), translated(sandbox, e))
  /\ UNCHANGED hostVars

NextLoader ==
  \/ \E b \in Bundles : loadBootstrap(b)
  \/ \E i \in 1..Len(sandbox.artifacts) : loadArtifact(sandbox.artifacts[i])
  \/ \E m \in RequireIds : require(m)
  \/ loadTests
  \/ \E o \in DOMAIN sandbox.moduleCache, e \in CompilerIds : rq(o, e)

\* the state after construction, in a project whose sources give one of graphs
InitWith(graphs) ==
  /\ opts \in Configs
  /\ hostFiles \in FileLists
  /\ moduleGraph \in graphs
  /\ failures = 0
  /\ wallaby = [affectedFiles |-> {}, anyFilesAdded |-> FALSE, anyFilesDeleted |-> FALSE]
  /\ pc = "idle"
  /\ result = "none"
  /\ _compiler = FALSE
  /\ _loaderEmitRequired = FALSE
  /\ _fullRun = FALSE
  /\ _compilationCache = [x \in {} |-> 0]
  /\ _compilationFileTimestamps = [x \in {} |-> 0]
  /\ _affectedModules = <<>>
  /\ _moduleIds = EmptyObj
  /\ _moduleIdByPath = EmptyObj
  /\ _modulePathById = EmptyObj
  /\ _allTrackedFiles = <<>>
  /\ _entryFiles = <<>>
  /\ _testDependencies = [x \in {} |-> <<>>]
  /\ _testFilePathById = [x \in {} |-> ""]
  /\ errors = <<>>
  /\ logged = <<>>
  /\ rejection = <<>>
  /\ fulfilment = <<>>
  /\ atStart = <<>>
  /\ affectedFiles = {}
  /\ moduleFiles = <<>>
  /\ loaderFile = <<>>
  /\ entryFile = <<>>
  /\ pending = 0
  /\ probe = <<>>
  /\ received = [identities |-> {}, loader |-> <<>>, lacking |-> FALSE]
  /\ sandbox = NoSandbox
  /\ traversal = <<>>
  /\ edited = {}

Init == InitWith({DefaultGraph})

Next ==
  \/ \E allFiles \in FileLists :
       \E changed \in ChangedSets(allFiles) : StartRun(allFiles, changed)
  \/ CompileFail
  \/ CompileSucceed
  \/ FileCreated
  \/ FilesCreated
  \/ CreateFileFailed
  \/ Return

Spec == Init /\ [][Next]_vars

(***************************************************************************)
(* The identity scheme on its own: _getModuleId is static and is called    *)
(* with a module, the tracked file of its resource (or undefined) and the  *)
(* entry flag.  A file object exists only for the module's own resource,   *)
(* and only a tracked file is an entry file.                               *)
(***************************************************************************)
ProbeAnnotations == {Undefined, Str("app/main")}

ProbeIds == {Num(0), Num(1), Num(5), Str("c"), Str("./a.js")}

ProbeResources == {Undefined, Str("/a.js"), Str("/t.spec.js")}

ProbeFiles == {undefinedFile, fileOf("a.js"), fileOf("t.spec.js")}

ProbeModules ==
  [id : ProbeIds, resource : ProbeResources, meta : ProbeAnnotations,
   buildMeta : ProbeAnnotations]

GetModuleId(m, file, isEntryFile) ==
  /\ file.defined => m.resource = Str(fullPath(file.path))
  /\ isEntryFile => file.defined
  /\ probe' = <<[m |-> m, file |-> file, isEntryFile |-> isEntryFile,
                 moduleId |-> _getModuleId(m, file, isEntryFile)]>>
  /\ UNCHANGED <<envVars, instVars, runVars, obsVars, received, sandbox, moduleGraph, edited,
                 traversal>>

NextId ==
  \E m \in ProbeModules, file \in ProbeFiles, isEntryFile \in BOOLEAN :
    GetModuleId(m, file, isEntryFile)

SpecId == Init /\ [][NextId]_vars

SpecLoader == Init /\ [][NextLoader]_vars

\* a project in which a.js and b.js re-export each other
CyclicGraph == [DefaultGraph EXCEPT !["mA"] = <<ReExport("mA", "mB")>>]

InitCycle == InitWith({CyclicGraph})

SpecCycle == InitCycle /\ [][NextLoader]_vars

(***************************************************************************)
(* Runs that succeed, between which the user edits a file.  The host       *)
(* reports every file saved since the last run among the changed files.    *)
(***************************************************************************)
\* the dependency lists an edit may give the module m: b.js re-exports a.js,
\* or it imports c.js as well, or it becomes a CommonJS file that requires
\* c.js
Rewrites(m) ==
  IF m = "mB"
  THEN {DefaultGraph[m], <<ReExport("mB", "mA"), Import("mC")>>, <<Require("mC")>>}
  ELSE {DefaultGraph[m]}

\* the user saves the tracked file p with the dependency list deps
Edit(p, deps) ==
  /\ pc = "idle"
  /\ p \in SeqToSet(hostFiles)
  /\ deps # moduleGraph[entryModule(p)]
  /\ moduleGraph' = [moduleGraph EXCEPT ![entryModule(p)] = deps]
  /\ edited' = edited \cup {p}
  /\ UNCHANGED <<envVars, instVars, runVars, obsVars, received, probe, sandbox, traversal>>

NextEdit ==
  \/ \E p \in Paths : \E deps \in Rewrites(entryModule(p)) : Edit(p, deps)
  \/ \E allFiles \in FileLists :
       \E changed \in ChangedSets(allFiles) : StartRun(allFiles, changed)
  \/ CompileSucceed
  \/ FileCreated
  \/ FilesCreated
  \/ Return

SpecEdit == Init /\ [][NextEdit]_vars

(***************************************************************************)
(* The two traversals on their own, over the module graphs of Graphs.  The *)
(* instance is in its first run: it has taken the host's files as its      *)
(* tracked files and entry files, and the compiler has made the modules.   *)
(***************************************************************************)
InitGraph ==
  /\ opts \in Configs
  /\ hostFiles \in FileLists
  /\ moduleGraph \in Graphs
  /\ failures = 0
  /\ wallaby = [affectedFiles |-> {}, anyFilesAdded |-> FALSE, anyFilesDeleted |-> FALSE]
  /\ pc = "idle"
  /\ result = "none"
  /\ _compiler = TRUE
  /\ _loaderEmitRequired = TRUE
  /\ _fullRun = TRUE
  /\ _compilationCache = [x \in {} |-> 0]
  /\ _compilationFileTimestamps = [x \in {} |-> 0]
  /\ _affectedModules = <<>>
  /\ _moduleIds = EmptyObj
  /\ _moduleIdByPath = EmptyObj
  /\ _modulePathById = EmptyObj
  /\ _allTrackedFiles = hostFiles
  /\ _entryFiles = entryFilesOf(hostFiles)
  /\ _testDependencies = [x \in {} |-> <<>>]
  /\ _testFilePathById = [x \in {} |-> ""]
  /\ errors = <<>>
  /\ logged = <<>>
  /\ rejection = <<>>
  /\ fulfilment = <<>>
  /\ atStart = <<>>
  /\ affectedFiles = {}
  /\ moduleFiles = <<>>
  /\ loaderFile = <<>>
  /\ entryFile = <<>>
  /\ pending = 0
  /\ probe = <<>>
  /\ received = [identities |-> {}, loader |-> <<>>, lacking |-> FALSE]
  /\ sandbox = NoSandbox
  /\ traversal = <<>>
  /\ edited = {}

\* the modules of the compilation whose resource is a tracked test file
TrackedTestModules ==
  {m \in SeqToSet(Compilation.modules) :
     trackedDepFile(m) # "" /\ isTestPath(trackedDepFile(m))}

\* the lists of built modules the closure is called with: one module of the
\* compilation, or all of them in build order
AffectedLists ==
  {<<m>> : m \in SeqToSet(Compilation.modules)} \cup {Compilation.modules}

\* the emission of the tracked test module m computes its test dependencies
TestDependencies(m) ==
  /\ _testDependencies' = Put(_testDependencies, fileId(trackedDepFile(m)), testDepIds(m))
  /\ traversal' =
       <<[call |-> "testDependencies", from |-> <<m>>,
          visits |-> _traverseDependencies(dependencies(m), depModule,
                                           noTraversal).visits]>>
  /\ UNCHANGED <<envVars, runVars, obsVars, received, probe, sandbox, moduleGraph, edited>>
  /\ UNCHANGED <<_compiler, _loaderEmitRequired, _fullRun, _compilationCache,
                 _compilationFileTimestamps, _affectedModules, _moduleIds,
                 _moduleIdByPath, _modulePathById, _allTrackedFiles, _entryFiles,
                 _testFilePathById>>

\* an incremental run computes the closure of the built modules ms
HarmonyClosure(ms) ==
  /\ traversal' =
       <<[call |-> "closure", from |-> ms,
          visits |-> _addHarmonyModulesAffectedDependencies(ms, {}).visits]>>
  /\ UNCHANGED <<envVars, instVars, runVars, obsVars, received, probe, sandbox,
                 moduleGraph, edited>>

NextGraph ==
  \/ \E m \in TrackedTestModules : TestDependencies(m)
  \/ \E ms \in AffectedLists : HarmonyClosure(ms)

SpecGraph == InitGraph /\ [][NextGraph]_vars

(***************************************************************************)
(* Properties.  The artifacts of a run are read in the state "emitting",   *)
(* where result still tells how the run before it settled.                 *)
(***************************************************************************)
\* the run in progress got no changed file and no added or deleted file
NothingChanged ==
  /\ wallaby.affectedFiles = {}
  /\ ~wallaby.anyFilesAdded
  /\ ~wallaby.anyFilesDeleted

NoArtifacts == moduleFiles = <<>> /\ loaderFile = <<>> /\ entryFile = <<>>

\* C1 (idempotence): after a run has resolved, a further run with an empty
\* changed-file set and no file added or deleted creates no wrapped-module
\* artifact, no bootstrap script and no trailer script.
C1_Idempotence ==
  (pc = "emitting" /\ result = "resolved" /\ NothingChanged) => NoArtifacts

C1_Witness ==
  pc = "emitting" /\ result = "resolved" /\ NothingChanged /\ NoArtifacts

\* the identity the per-module loop computes for module m of tracked file p
IdentityOf(m, p) ==
  _getModuleId(moduleOf(m), fileOf(p), p # "" /\ p \in SeqToSet(_entryFiles))

\* the modules of the compilation made of the tracked file p
ModulesOfFile(p) ==
  {m \in SeqToSet(Compilation.modules) : resource(m) = fullPath(p)}

\* every module of file p has its identity among the keys of the registry
KnownIdentity(p) ==
  /\ ModulesOfFile(p) # {}
  /\ \A m \in ModulesOfFile(p) : ToKey(IdentityOf(m, p)) \in DOMAIN _moduleIds

\* C2 (loader regeneration minimality): an incremental run in which exactly
\* one tracked file changed, whose module's identity is already in the
\* identity registry, creates exactly one wrapped-module artifact and neither
\* the bootstrap script nor the trailer script, whatever the module's
\* compiler id.
C2_LoaderMinimality ==
  [][(/\ pc = "compiling"
      /\ pc' = "emitting"
      /\ ~_fullRun
      /\ \E p \in SeqToSet(_allTrackedFiles) :
            wallaby.affectedFiles = {p} /\ KnownIdentity(p))
     => (Len(moduleFiles') = 1 /\ loaderFile' = <<>> /\ entryFile' = <<>>)]_vars

\* module b re-exports from module m
ReExportsFrom(b, m) ==
  \E i \in 1..Len(dependencies(b)) :
    /\ dependencies(b)[i].ctor = "HarmonyExportImportedSpecifierDependency"
    /\ dependencies(b)[i].module = m

\* the modules of the compilation that a chain of re-export edges connects to
\* a module of the set ms
RECURSIVE ReExportClosure(_)
ReExportClosure(ms) ==
  IF \A b \in SeqToSet(Compilation.modules) :
       (\E m \in ms : ReExportsFrom(b, m)) => b \in ms
  THEN ms
  ELSE ReExportClosure(ms \cup {b \in SeqToSet(Compilation.modules) :
                                  \E m \in ms : ReExportsFrom(b, m)})

\* the modules of the files the host reported changed
ChangedModules == UNION {ModulesOfFile(p) : p \in wallaby.affectedFiles}

\* the modules the compiler built in the run in progress
Rebuilt == {m \in DOMAIN _compilationCache : _compilationCache[m] = BuildNow}

\* the run created a wrapped artifact for the tracked file p
Emitted(p) == \E i \in 1..Len(moduleFiles) : moduleFiles[i].original = p

\* C3 (closure completeness): on an incremental run, every tracked file that a
\* chain of re-export edges connects to a changed file (also a file that
\* several modules re-export) gets a wrapped artifact in the same run.
C3_ClosureComplete ==
  (pc = "emitting" /\ ~_fullRun)
  => \A m \in ReExportClosure(ChangedModules) :
       trackedDepFile(m) # "" => Emitted(trackedDepFile(m))

\* C4 (closure minimality): on an incremental run, a module the compiler did
\* not rebuild is emitted only if a chain of re-export edges connects it to a
\* rebuilt module; a module that only imports from a re-exporting module is
\* not emitted.
C4_ClosureMinimal ==
  (pc = "emitting" /\ ~_fullRun)
  => \A i \in 1..Len(moduleFiles) :
       moduleFiles[i].module \in ReExportClosure(Rebuilt)

\* the run in progress is the first one of the instance
FirstRun == pc = "emitting" /\ result = "none"

\* the tracked files the compiler built in the run in progress
BuiltFiles == {trackedDepFile(m) : m \in Rebuilt} \ {""}

\* the artifacts of the run whose original is the tracked file p
ArtifactsOf(p) == {i \in 1..Len(moduleFiles) : moduleFiles[i].original = p}

\* C5 as stated (initial-run completeness): the first run is a full run and
\* creates one wrapped artifact for every tracked file the compiler built,
\* plus the bootstrap script, plus the trailer script.
C5_InitialRunAsStated ==
  FirstRun
  => /\ _fullRun
     /\ \A p \in BuiltFiles : Cardinality(ArtifactsOf(p)) = 1
     /\ Len(loaderFile) = 1
     /\ Len(entryFile) = 1

\* the artifacts of the run made of the module m
ArtifactsOfModule(m) == {i \in 1..Len(moduleFiles) : moduleFiles[i].module = m}

\* C5 (initial-run completeness, amended): the first run is a full run and
\* creates one wrapped artifact for every module the compiler built (the
\* artifact of a module of a tracked file names that file as its original),
\* plus the bootstrap script, plus the trailer script exactly when entry
\* patterns are configured and match a tracked file.
C5_InitialRun ==
  FirstRun
  => /\ _fullRun
     /\ \A m \in Rebuilt :
          /\ Cardinality(ArtifactsOfModule(m)) = 1
          /\ \A i \in ArtifactsOfModule(m) :
               moduleFiles[i].original = trackedDepFile(m)
     /\ Len(loaderFile) = 1
     /\ (Len(entryFile) = 1) <=> (opts.entryPatterns # <<>> /\ _entryFiles # <<>>)

C5_Witness ==
  /\ FirstRun
  /\ opts.entryPatterns = <<>>
  /\ Cardinality(ArtifactsOf("a.js")) = 2
  /\ Len(loaderFile) = 1
  /\ entryFile = <<>>

\* m is the module of a tracked test file or of an entry file
EntryOrTestModule(m) ==
  /\ trackedDepFile(m) # ""
  /\ \/ isTestPath(trackedDepFile(m))
     \/ trackedDepFile(m) \in SeqToSet(_entryFiles)

\* C6 (identity stability): across incremental runs with no structural
\* change, the identity under which an entry or test module is emitted and
\* registered is its absolute file path, so it does not change from run to
\* run.
C6_IdentityStable ==
  (pc = "emitting" /\ ~_fullRun)
  => \A i \in 1..Len(moduleFiles) :
       EntryOrTestModule(moduleFiles[i].module)
       => /\ moduleFiles[i].id = Str(resource(moduleFiles[i].module))
          /\ ToKey(moduleFiles[i].id) \in DOMAIN _moduleIds

\* the identity precedence as the contract states it
Precedence(x) ==
  IF x.m.meta # Undefined THEN x.m.meta
  ELSE IF x.m.buildMeta # Undefined THEN x.m.buildMeta
  ELSE IF (x.file.defined /\ x.file.test) \/ x.m.id.t # "num" \/ x.isEntryFile
       THEN x.m.resource
  ELSE x.m.id

\* C7 (identity precedence): the identity of a module is its framework
\* annotation when it has one, else its build-meta annotation when it has
\* one, else its resource path when it is a test file or its compiler id is
\* not numeric or it is an entry file, else its numeric compiler id.
C7_IdentityPrecedence ==
  probe # <<>> => probe[1].moduleId = Precedence(probe[1])

C7_Witness ==
  /\ probe # <<>>
  /\ probe[1].m.meta = Undefined
  /\ probe[1].m.buildMeta = Undefined
  /\ probe[1].m.id.t = "num"
  /\ probe[1].file.defined
  /\ ~probe[1].file.test
  /\ probe[1].isEntryFile
  /\ probe[1].moduleId = probe[1].m.resource

\* C8 (identity uniqueness): two distinct modules emitted in one run never
\* get the same identity, also when one resource is compiled under two
\* compiler ids.
C8_IdentityUnique ==
  pc = "emitting"
  => \A i, j \in 1..Len(moduleFiles) :
       moduleFiles[i].id = moduleFiles[j].id
       => moduleFiles[i].module = moduleFiles[j].module

\* the position of x in the sequence q
Pos(q, x) == CHOOSE i \in 1..Len(q) : q[i] = x

\* the index of the first entry pattern the tracked file p matches
FirstPattern(p) ==
  CHOOSE k \in 1..Len(opts.entryPatterns) :
    /\ mm(p, opts.entryPatterns[k])
    /\ \A l \in 1..(k - 1) : ~mm(p, opts.entryPatterns[l])

\* C9 (entry order determinism): the trailer invokes the entry files in the
\* order of the index of the first pattern each one matches, and files of one
\* pattern in the order the host lists them, whatever that order is.
C9_EntryOrder ==
  entryFile # <<>>
  => \A i, j \in 1..Len(entryFile[1].files) :
       i < j
       => LET f == entryFile[1].files[i]
              g == entryFile[1].files[j]
          IN \/ FirstPattern(f) < FirstPattern(g)
             \/ /\ FirstPattern(f) = FirstPattern(g)
                /\ Pos(_allTrackedFiles, f) < Pos(_allTrackedFiles, g)

C9_Witness ==
  /\ entryFile # <<>>
  /\ \E i, j \in 1..Len(entryFile[1].files) :
       /\ i < j
       /\ Pos(_allTrackedFiles, entryFile[1].files[i])
            > Pos(_allTrackedFiles, entryFile[1].files[j])
  /\ \E i, j \in 1..Len(entryFile[1].files) :
       /\ i < j
       /\ FirstPattern(entryFile[1].files[i]) = FirstPattern(entryFile[1].files[j])

\* the entry files that are not test files
NonTestEntries == {p \in SeqToSet(_entryFiles) : ~isTestPath(p)}

\* C10 (trailer content): an emitted trailer invokes the runtime require once
\* for every entry file that is not a test file, with the identity currently
\* registered for that file.
C10_TrailerContent ==
  entryFile # <<>>
  => /\ Len(entryFile[1].files) = Cardinality(NonTestEntries)
     /\ SeqToSet(entryFile[1].files) = NonTestEntries
     /\ \A i \in 1..Len(entryFile[1].files) :
          /\ entryFile[1].requires[i] # Undefined
          /\ entryFile[1].requires[i]
               = Get(_moduleIdByPath, fullPath(entryFile[1].files[i]))
          /\ ToKey(entryFile[1].requires[i]) \in DOMAIN _moduleIds

\* the order value a is strictly lower than the order value b
OrderLess(a, b) ==
  \/ a.t = "num" /\ b.t = "num" /\ a.n < b.n
  \/ a.t = "num" /\ b.t = "inf"

\* the order values of the wrapped-module artifacts that carry one
ModuleOrders ==
  {moduleFiles[i].order : i \in 1..Len(moduleFiles)} \ {NoOrder}

\* C11 (artifact ordering): in a run that emits them, the order of the
\* bootstrap script is strictly lower than the order of every other artifact
\* created, and the order of the trailer script is strictly higher than the
\* order of every other artifact created, under every configuration.
C11_ArtifactOrdering ==
  pc = "emitting"
  => /\ loaderFile # <<>>
        => \A o \in ModuleOrders \cup {entryFile[i].order : i \in 1..Len(entryFile)} :
             OrderLess(loaderFile[1].order, o)
     /\ entryFile # <<>>
        => \A o \in ModuleOrders \cup {loaderFile[i].order : i \in 1..Len(loaderFile)} :
             OrderLess(o, entryFile[1].order)

\* the tracked file p matches at least one entry pattern
MatchesAPattern(p) ==
  \E k \in 1..Len(opts.entryPatterns) : mm(p, opts.entryPatterns[k])

\* C12 (entry selection): after a full run with entry patterns configured, a
\* tracked file is in the entry set if and only if it matches at least one
\* pattern; with no patterns configured the entry set is exactly the set of
\* the known test files.
C12_EntrySelection ==
  _compiler
  => IF opts.entryPatterns # <<>>
     THEN \A p \in SeqToSet(_allTrackedFiles) :
            p \in SeqToSet(_entryFiles) <=> MatchesAPattern(p)
     ELSE SeqToSet(_entryFiles) = {p \in SeqToSet(_allTrackedFiles) : isTestPath(p)}

C12_Witness ==
  /\ _compiler
  /\ opts.entryPatterns # <<>>
  /\ \E p \in SeqToSet(_allTrackedFiles) : p \notin SeqToSet(_entryFiles)
  /\ \E p \in SeqToSet(_entryFiles) : ~mm(p, opts.entryPatterns[1])

\* the run that starts in this step takes the full-run branch
FullRunStarts ==
  /\ pc = "idle"
  /\ pc' = "compiling"
  /\ ~_compiler \/ wallaby'.anyFilesAdded \/ wallaby'.anyFilesDeleted

\* the four tables are reset: the cache, the registry and the test dependency
\* index are empty, and the file timestamps hold nothing of an earlier run,
\* only the markers this run writes for its tracked files before it compiles
AllReset ==
  /\ _compilationCache' = [x \in {} |-> 0]
  /\ _moduleIds' = EmptyObj
  /\ _testDependencies' = [x \in {} |-> <<>>]
  /\ DOMAIN _compilationFileTimestamps' = {fullPath(p) : p \in SeqToSet(hostFiles')}
  /\ \A r \in DOMAIN _compilationFileTimestamps' :
       _compilationFileTimestamps'[r] = DateNow

\* no table that holds something is emptied, and no file timestamp is removed
NoneReset ==
  /\ _compilationCache # [x \in {} |-> 0] => _compilationCache' # [x \in {} |-> 0]
  /\ _moduleIds # EmptyObj => _moduleIds' # EmptyObj
  /\ _testDependencies # [x \in {} |-> <<>>] => _testDependencies' # [x \in {} |-> <<>>]
  /\ DOMAIN _compilationFileTimestamps \subseteq DOMAIN _compilationFileTimestamps'

\* C13 (atomic reset): a run that is the first run of the instance or reports
\* files added or deleted resets the compilation cache, the file timestamps,
\* the identity registry and the test dependency index together in the step
\* that precedes the compile; no other step resets any of them.
C13_AtomicReset ==
  [][IF FullRunStarts THEN AllReset ELSE NoneReset]_vars

C13_Witness ==
  /\ pc = "compiling"
  /\ _fullRun
  /\ result = "resolved"
  /\ wallaby.anyFilesAdded \/ wallaby.anyFilesDeleted
  /\ _compilationCache = [x \in {} |-> 0]
  /\ _moduleIds = EmptyObj
  /\ _testDependencies = [x \in {} |-> <<>>]

\* the run in progress was rejected by the compile step
CompileRejected ==
  /\ pc = "settled"
  /\ rejection # <<>>
  /\ rejection[1].source \in {"callback", "throw"}

\* C14 (compile-step failure): when the compiler passes an error to its
\* callback or throws, the promise of the run rejects with that same error and
\* the run creates no wrapped module, no bootstrap and no trailer.
C14_CompileFailure ==
  (pc = "settled" /\ rejection # <<>> /\ rejection[1].source # "createFile")
  => /\ result = "rejected"
     /\ rejection[1].error = rejection[1].raised
     /\ NoArtifacts

C14_Witness ==
  /\ CompileRejected
  /\ rejection[1].source = "throw"
  /\ rejection[1].error = "EIO"
  /\ result = "rejected"
  /\ _affectedModules # <<>>

\* C15 (compile-step failure leaves the cache state untouched): after a run
\* rejected by a compiler error, the compilation cache, the file timestamps,
\* the identity registry and the test dependency index hold the values they
\* held when the run started.
C15_FailureLeavesTables ==
  CompileRejected => tables = atStart[1]

\* every affected module of the run got an artifact
AllAffectedEmitted ==
  /\ Rebuilt \subseteq {moduleFiles[i].module : i \in 1..Len(moduleFiles)}
  /\ Rebuilt # {} => moduleFiles # <<>>

\* the log of the run ends with one entry for each diagnostic, in order
DiagnosticsLogged ==
  /\ Len(logged) >= Len(errors)
  /\ SubSeq(logged, Len(logged) - Len(errors) + 1, Len(logged))
       = [i \in 1..Len(errors) |-> errorText(errors[i])]
  /\ \A i \in 1..(Len(logged) - Len(errors)) :
       \A j \in 1..Len(errors) : logged[i] # errorText(errors[j])

\* C16 (diagnostics do not abort a run): when the compile succeeds and the
\* compilation carries N diagnostics, each of them is logged exactly once, the
\* run creates an artifact for every affected module, and the run is not
\* rejected on their account.
C16_DiagnosticsLogged ==
  /\ (pc = "emitting" /\ errors # <<>>) => (DiagnosticsLogged /\ AllAffectedEmitted)
  /\ (pc = "settled" /\ errors # <<>> /\ result = "rejected")
       => (rejection # <<>> /\ rejection[1].source = "createFile")

C16_Witness ==
  /\ pc = "settled"
  /\ result = "resolved"
  /\ Len(errors) = 2
  /\ DiagnosticsLogged
  /\ Len(logged) > Len(errors)
  /\ Len(moduleFiles) > 1


(***************************************************************************)
(* The loader runtime in the sandbox                                       *)
(***************************************************************************)
\* g is f with at most the entry at key k added or replaced
OnlyKeyChanged(f, g, k) ==
  /\ DOMAIN g = DOMAIN f \cup {k}
  /\ \A x \in DOMAIN f \ {k} : g[x] = f[x]

\* the number of times the factory registered under key k has been invoked
Invocations(sb, k) == IF k \in DOMAIN sb.invoked THEN sb.invoked[k] ELSE 0

\* the step is the fetch of a wrapped artifact
ArtifactLoads == sandbox'.op = "load" /\ sandbox' # sandbox

\* C17 (an artifact only registers): the fetch of a wrapped artifact changes
\* the module cache at the key of the artifact's identity and nowhere else,
\* invokes no factory and leaves the instance table and the bootstrap's
\* tables as they were; and whenever a factory is invoked, the step is a
\* resolve (through require, loadTests or a compiled __webpack_require__)
\* in which s was called with that factory's identity.
C17_LoadRegistersOnly ==
  [][/\ ArtifactLoads =>
          /\ OnlyKeyChanged(sandbox.cache, sandbox'.cache, ToKey(sandbox'.arg))
          /\ ToKey(sandbox'.arg) \in DOMAIN sandbox'.cache
          /\ sandbox'.moduleCache = sandbox.moduleCache
          /\ sandbox'.invoked = sandbox.invoked
          /\ sandbox'.ran = {}
          /\ sandbox'.deps = sandbox.deps
          /\ sandbox'.depPaths = sandbox.depPaths
          /\ sandbox'.testFilePathById = sandbox.testFilePathById
     /\ \A k \in DOMAIN sandbox'.invoked :
          Invocations(sandbox', k) > Invocations(sandbox, k)
            => /\ sandbox'.op \in {"require", "loadTests", "rq"}
               /\ k \in sandbox'.calls
               /\ k \in DOMAIN sandbox.cache]_vars

\* an artifact was fetched while other modules were already instantiated, and
\* its factory has never run
C17_Witness ==
  /\ sandbox.op = "load"
  /\ ToKey(sandbox.arg) \in DOMAIN sandbox.cache
  /\ DOMAIN sandbox.moduleCache # {}
  /\ ToKey(sandbox.arg) \notin DOMAIN sandbox.moduleCache
  /\ Invocations(sandbox, ToKey(sandbox.arg)) = 0


\* C18 (resolve memoization): in one sandbox lifetime no factory is invoked
\* more than once, whatever the order of the require, loadTests and
\* __webpack_require__ calls, which all work on the same module cache and
\* instance table; an identity that has an instance record keeps that record
\* and its factory is not invoked again, and require of such an identity
\* returns without throwing and without running any factory.
C18_ResolveMemoized ==
  [][/\ \A k \in DOMAIN sandbox'.invoked : sandbox'.invoked[k] <= 1
     /\ \A k \in DOMAIN sandbox.moduleCache :
          /\ k \in DOMAIN sandbox'.moduleCache
          /\ Invocations(sandbox', k) = Invocations(sandbox, k)
     /\ (/\ sandbox'.op \in {"require", "rq"}
         /\ sandbox' # sandbox
         /\ sandbox'.calls \subseteq DOMAIN sandbox.moduleCache)
          => /\ sandbox'.ran = {}
             /\ sandbox'.thrown = <<>>
             /\ sandbox'.moduleCache = sandbox.moduleCache]_vars

\* require returned the exports of a test module that loadTests or an earlier
\* require had instantiated, and ran nothing
C18_Witness ==
  /\ sandbox.op = "require"
  /\ sandbox.arg = Str("/t.spec.js")
  /\ sandbox.calls = {"/t.spec.js"}
  /\ sandbox.ran = {}
  /\ sandbox.thrown = <<>>
  /\ Invocations(sandbox, "/t.spec.js") = 1


\* the modules of the bundle that are test files
TestModules == {m \in Modules : \E p \in Paths : isTestPath(p) /\ resource(m) = fullPath(p)}

\* the last call was a compiled __webpack_require__ of a test module's
\* compiler id
TestResolved ==
  /\ sandbox.op = "rq"
  /\ \E m \in TestModules : sandbox.arg = id(m)

\* C19 (duplicate test execution detection): when compiled code resolves the
\* compiler id of a test-file module, the resolve throws the
\* duplicate-execution diagnostic that names the test file's path, and no
\* factory is executed.
C19_DuplicateDetected ==
  TestResolved =>
    /\ sandbox.thrown = <<duplicateTestError("t.spec.js")>>
    /\ sandbox.ran = {}


\* the identity the step passes to s: the argument of require, or what rq
\* makes of the compiler id
Resolved == IF sandbox'.op = "rq" THEN translated(sandbox, sandbox'.arg) ELSE sandbox'.arg

\* the identity has no instance record, no factory and no test file path
Unknown(sb, o) ==
  /\ ToKey(o) \notin DOMAIN sb.moduleCache
  /\ ToKey(o) \notin DOMAIN sb.cache
  /\ ToKey(o) \notin DOMAIN sb.testFilePathById

\* the error is the module-not-found error for key k, annotated with the
\* entry the path table of sb has for k if the bootstrap emitted that table
IsModuleNotFound(err, sb, k) ==
  /\ err.code = "MODULE_NOT_FOUND"
  /\ err.module = k
  /\ err.annotation = IF sb.hasDepPaths
                      THEN <<IF k \in DOMAIN sb.depPaths THEN sb.depPaths[k] ELSE Undefined>>
                      ELSE <<>>

TestFileModule(m) == trackedDepFile(m) # "" /\ isTestPath(trackedDepFile(m))

\* the identity loadTests computes for the artifact a is the identity under
\* which the artifact registers
RoundTrip(a) ==
  /\ stripSuffix(a.path) # <<>>
  /\ testIds(<<a.path>>) = <<a.id>>

\* C21 (loadTests round trip): for every artifact the run creates for a module
\* of a tracked test file, the artifact's path without the wrapped-artifact
\* suffix, prefixed with the base directory, is the identity under which the
\* artifact registers in the module cache.
C21_LoadTestsRoundTrip ==
  \A i \in 1..Len(moduleFiles) :
    TestFileModule(moduleFiles[i].module) => RoundTrip(moduleFiles[i])


\* the path of a tracked file's artifact with the compiler id of module m
\* before the extension
PathWithId(f, m) == f \o "." \o ToKey(id(m)) \o WrappedSuffix

\* the synthetic path made of the compiler id of module m alone
SyntheticPath(m) == "__modules/" \o ToKey(id(m)) \o ".js"

SchemePath(a) ==
  IF a.original = "" THEN SyntheticPath(a.module)
  ELSE IF isNumber(id(a.module)) /\ ~isTestPath(a.original)
       THEN PathWithId(a.original, a.module)
       ELSE a.original \o WrappedSuffix

Pinned(r) ==
  r \in DOMAIN _compilationFileTimestamps /\ _compilationFileTimestamps[r] = Sentinel

\* C23 (sentinel pinning): after the emission of a run, the marker of an
\* emitted module's resource is the sentinel if and only if the module has a
\* resource that is the path of no tracked file; and the marker of a tracked
\* file is never the sentinel.
C23_SentinelPinning ==
  /\ pc = "emitting" =>
       \A i \in 1..Len(moduleFiles) :
         resource(moduleFiles[i].module) # "" =>
           (Pinned(resource(moduleFiles[i].module))
              <=> trackedDepFile(moduleFiles[i].module) = "")
  /\ \A p \in SeqToSet(_allTrackedFiles) : ~Pinned(fullPath(p))


\* the run in progress has resolved
RunResolved == pc = "settled" /\ result = "resolved"

\* C24 (the bootstrap knows every emitted identity): after every run that
\* resolved, every identity under which an artifact was created since the
\* last reset is a key of the identity table of the bootstrap script created
\* last; so the run that first emits an identity also emits the bootstrap.
C24_BootstrapKnowsIdentities ==
  RunResolved =>
    /\ received.identities # {} => received.loader # <<>>
    /\ \A k \in received.identities : k \in DOMAIN received.loader[1].deps

\* an incremental run resolved that emitted the test module under its numeric
\* identity, unseen before, and the bootstrap with it
C24_Witness ==
  /\ RunResolved
  /\ ~_fullRun
  /\ \E i \in 1..Len(moduleFiles) : moduleFiles[i].id = Num(0)
  /\ loaderFile # <<>>
  /\ received.loader = loaderFile
  /\ Cardinality(received.identities) > Len(moduleFiles)


\* the diagnostic for the entry pattern pat
NoMatchMessage(pat) == "Specified entry pattern \"" \o pat \o "\" does not match any file."

\* how often the run logged the text
TimesLogged(text) == Cardinality({i \in 1..Len(logged) : logged[i] = text})

\* C25 (pattern diagnostics): a full run with entry patterns logs the
\* diagnostic once for every pattern that matches no tracked file, and never
\* for a pattern that matches a tracked file, also when every file the
\* pattern matches matches an earlier pattern too.
C25_PatternDiagnostics ==
  (pc = "compiling" /\ _fullRun) =>
    \A j \in 1..Len(opts.entryPatterns) :
      TimesLogged(NoMatchMessage(opts.entryPatterns[j])) =
        IF \E p \in SeqToSet(_allTrackedFiles) : mm(p, opts.entryPatterns[j])
        THEN 0 ELSE 1


\* the step starts a run that is not the instance's first and reports no file
\* added or deleted, or is a later step of such a run
IncrementalStep ==
  \/ /\ pc = "idle" /\ pc' = "compiling"
     /\ _compiler
     /\ ~wallaby'.anyFilesAdded /\ ~wallaby'.anyFilesDeleted
  \/ /\ pc \in {"compiling", "emitting"}
     /\ ~_fullRun

\* every entry of the registry is still there, with its value
RegistryKept ==
  \A k \in DOMAIN _moduleIds :
    k \in DOMAIN _moduleIds' /\ _moduleIds'[k] = _moduleIds[k]

RECURSIVE Reach(_, _)
Reach(frontier, seen) ==
  LET next == {d.module : d \in UNION {SeqToSet(dependencies(x)) : x \in frontier}}
                \ ({NoModule} \cup seen)
  IN IF next = {} THEN seen ELSE Reach(next, seen \cup next)

\* the ids of the tracked files reachable from module m
ReachableFileIds(m) ==
  {fileId(trackedDepFile(x)) : x \in {y \in Reach({m}, {}) : trackedDepFile(y) # ""}}

NoRepeat(seq) == \A i, j \in 1..Len(seq) : seq[i] = seq[j] => i = j

\* C27: when a test module is emitted, its entry of the test dependency
\* index is the list of the ids of exactly the tracked files reachable from it
\* through dependency edges of any kind, also through untracked modules and
\* modules without a resource, each id listed once
C27_TestDependencies ==
  (traversal # <<>> /\ traversal[1].call = "testDependencies")
  => LET depIds == _testDependencies[fileId(trackedDepFile(traversal[1].from[1]))]
     IN /\ SeqToSet(depIds) = ReachableFileIds(traversal[1].from[1])
        /\ NoRepeat(depIds)


\* the resources in the visit log
Resources(visits) == SelectSeq(visits, LAMBDA r : r # "")

\* C28: the re-export closure and the test-dependency traversal come to an end
\* on every module graph, also on graphs with import cycles and re-export
\* cycles, and a traversal visits no resource twice
C28_TraversalTerminates ==
  traversal # <<>>
  => /\ NoRepeat(Resources(traversal[1].visits))
     /\ Len(traversal[1].visits) <= Cardinality({resource(m) : m \in Modules})

\* the test-dependency traversal has come back to the test module through an
\* import cycle, on a graph that also has a re-export cycle
C28_Witness ==
  /\ traversal # <<>>
  /\ traversal[1].call = "testDependencies"
  /\ moduleGraph["mB"] = <<ReExport("mB", "mA"), Import("mT")>>
  /\ moduleGraph["mA"] = <<ReExport("mA", "mB")>>
  /\ "/t.spec.js" \in SeqToSet(traversal[1].visits)


(***************************************************************************)
(* Run completion.                                                         *)
(***************************************************************************)
\* the number of createFile calls the run in progress has made
Issued == Len(moduleFiles) + Len(loaderFile) + Len(entryFile)

\* C29: the promise of a run resolves only after every createFile promise of
\* the run has resolved, its value then holds the test dependency index, and
\* it rejects when one of the createFile promises rejects
C29_RunCompletion ==
  pc = "settled"
  => /\ result = "resolved"
          => /\ pending = 0
             /\ rejection = <<>>
             /\ fulfilment = <<[testDependencies |-> _testDependencies]>>
     /\ (rejection # <<>> /\ rejection[1].source = "createFile")
          => (result = "rejected" /\ fulfilment = <<>> /\ pending < Issued)

\* a run that created several files has resolved with an index that has an
\* entry
C29_Witness ==
  /\ pc = "settled"
  /\ result = "resolved"
  /\ Issued >= 3
  /\ DOMAIN _testDependencies # {}
  /\ fulfilment = <<[testDependencies |-> _testDependencies]>>


(***************************************************************************)
(* The instantiation protocol of the prelude.                              *)
(***************************************************************************)
\* whether the sandbox sb holds a loaded instance record for the key k
Loaded(sb, k) == k \in DOMAIN sb.moduleCache /\ sb.moduleCache[k].loaded

\* the last call: every factory invoked found its instance record made, a
\* factory that has not returned leaves a record that is not loaded and its
\* error with the caller, and no identity resolved while its factory was
\* executing is the one the call failed for
ProtocolKept(sb) ==
  /\ \A k \in sb.ran : k \in DOMAIN sb.moduleCache
  /\ \A k \in sb.running : ~Loaded(sb, k)
  /\ sb.running # {} => sb.thrown # <<>>
  /\ \A k \in sb.reentered :
       /\ k \in DOMAIN sb.moduleCache
       /\ sb.thrown # <<>> => sb.thrown[1].module # k

\* C30: resolve makes the instance record before it invokes the factory, an
\* error thrown by the factory reaches the caller of resolve, a record becomes
\* loaded only in a call in which its factory returned normally, and a resolve
\* of an identity whose factory is still executing returns the record instead
\* of failing
C30_InstantiationProtocol ==
  [][/\ ProtocolKept(sandbox')
     /\ \A k \in DOMAIN sandbox'.moduleCache :
          (Loaded(sandbox', k) /\ ~Loaded(sandbox, k))
          => k \in sandbox'.ran \ sandbox'.running]_vars

\* b.js was resolved again while its factory was executing (a.js, which it
\* re-exports, re-exports b.js), and the call returned with both loaded
C30_Witness ==
  /\ sandbox.op = "require"
  /\ sandbox.reentered = {ToKey(id("mB"))}
  /\ sandbox.thrown = <<>>
  /\ Loaded(sandbox, ToKey(id("mB")))
  /\ Loaded(sandbox, ToKey(id("mA")))


\* the identities whose instance record the sandbox sb holds unloaded: between
\* two calls these are the identities whose factory threw
FailedIdentities(sb) == {k \in DOMAIN sb.moduleCache : ~sb.moduleCache[k].loaded}

\* C31: a module whose factory threw is not treated as loaded afterwards: a
\* later resolve of its identity throws again or executes the factory again
C31_FailedModuleNotLoaded ==
  [][\A k \in FailedIdentities(sandbox) :
       (sandbox'.op \in {"require", "loadTests", "rq"} /\ k \in sandbox'.calls)
       => (sandbox'.thrown # <<>> \/ k \in sandbox'.ran)]_vars


(***************************************************************************)
(* What a run emits.                                                       *)
(***************************************************************************)
\* the modules ms and the issuers above them, which is as far as the closure
\* of a run can reach from ms
RECURSIVE WithIssuers(_)
WithIssuers(ms) ==
  LET up == {issuer[m] : m \in ms} \ {NoModule}
  IN IF up \subseteq ms THEN ms ELSE WithIssuers(ms \cup up)

\* C32: every module a run emits was built by the compiler in that run or
\* added by the closure of that run; modules recorded during an earlier
\* rejected run are not emitted by a later run
C32_EmittedWereRebuilt ==
  pc = "emitting"
  => \A i \in 1..Len(moduleFiles) : moduleFiles[i].module \in WithIssuers(Rebuilt)


\* the artifact a of a module of the tracked file f is a tracked artifact
TrackedArtifact(a, f) ==
  /\ a.original = f
  /\ a.path # SyntheticPath(a.module)
  /\ (isTestPath(f) \/ _isEntryFile(f)) => a.id = Str(fullPath(f))

\* C33: in every run a module whose resource is the path of a tracked file is
\* emitted as a tracked artifact: its path comes from the path of the file, the
\* file is attached, and a test or entry file has its path as its identity,
\* also when the file is not among the changed files of the run
C33_TrackedModulesEmittedTracked ==
  pc = "emitting"
  => \A i \in 1..Len(moduleFiles) :
       trackedDepFile(moduleFiles[i].module) # ""
       => TrackedArtifact(moduleFiles[i], trackedDepFile(moduleFiles[i].module))


\* the paths of the files the run in progress created, in creation order
CreatedPaths ==
  [i \in 1..Len(moduleFiles) |-> moduleFiles[i].path]
    \o [i \in 1..Len(loaderFile) |-> loaderFile[i].path]
    \o [i \in 1..Len(entryFile) |-> entryFile[i].path]

\* C34: within one run no two created artifacts have the same path: the
\* affected set after the closure holds each module once, also a module
\* without a numeric compiler id, and two modules never get the same path
C34_DistinctPaths ==
  pc = "emitting" => NoRepeat(CreatedPaths)


(***************************************************************************)
(* The identity in the artifact and the identity in the tables.            *)
(***************************************************************************)
\* the artifact i is the last one of the run made for its tracked file
LastOfItsFile(i) ==
  \A j \in 1..Len(moduleFiles) :
    moduleFiles[j].original = moduleFiles[i].original => j <= i

\* C35: the identity written into the wrapped artifact of an emitted module is
\* the identity the same run records for it in the identity registry and in
\* the path-to-identity map, with and without entry patterns
C35_IdentityAgreement ==
  pc = "emitting"
  => \A i \in 1..Len(moduleFiles) :
       /\ ToKey(moduleFiles[i].id) \in DOMAIN _moduleIds
       /\ (moduleFiles[i].original # "" /\ LastOfItsFile(i))
            => Get(_moduleIdByPath, fullPath(moduleFiles[i].original))
                 = moduleFiles[i].id

\* with entry patterns, a run has emitted the module of an entry file that is
\* not a test file under its path, and the tables hold that path
C35_Witness ==
  /\ pc = "emitting"
  /\ opts.entryPatterns # <<>>
  /\ \E i \in 1..Len(moduleFiles) :
       /\ moduleFiles[i].original = "a.js"
       /\ isNumber(id(moduleFiles[i].module))
       /\ moduleFiles[i].id = Str("/a.js")
       /\ Get(_moduleIdByPath, "/a.js") = Str("/a.js")
       /\ "/a.js" \in DOMAIN _moduleIds


(***************************************************************************)
(* The test dependency index over runs.                                    *)
(***************************************************************************)
\* the modules of the compilation made of tracked test files
TestModulesNow ==
  {m \in SeqToSet(Compilation.modules) :
     trackedDepFile(m) # "" /\ isTestPath(trackedDepFile(m))}

\* C36: after any sequence of successful runs the index entry of every test
\* file lists exactly the tracked files the test transitively imports in the
\* current module graph, also when an edit added or removed an import in a
\* dependency of the test and left the test file alone
C36_IndexFresh ==
  (pc = "settled" /\ result = "resolved")
  => \A m \in TestModulesNow :
       /\ fileId(trackedDepFile(m)) \in DOMAIN _testDependencies
       /\ SeqToSet(_testDependencies[fileId(trackedDepFile(m))]) = ReachableFileIds(m)


(***************************************************************************)
(* Recovery of the bootstrap script.                                       *)
(***************************************************************************)
\* C37: when a run that had to emit the bootstrap script is rejected, by a
\* compile error or by a failed createFile, the next run that resolves emits
\* the bootstrap script
C37_BootstrapRecovered ==
  (pc = "settled" /\ result = "resolved") => ~received.lacking


(***************************************************************************)
(* The path tables across a full reset.                                    *)
(***************************************************************************)
\* the identities the path-to-identity map points at
MappedIdentities == {ToKey(_moduleIdByPath[fp]) : fp \in DOMAIN _moduleIdByPath}

\* C38: after a full reset the path-to-identity map and the identity-to-path
\* table hold only entries of modules emitted since the reset, so every key
\* of an emitted depPaths table is a key of the deps table emitted with it
C38_NoStaleIdentityState ==
  pc = "emitting"
  => /\ MappedIdentities \subseteq DOMAIN _moduleIds
     /\ DOMAIN _modulePathById \subseteq DOMAIN _moduleIds
     /\ loaderFile # <<>>
          => DOMAIN loaderFile[1].depPaths \subseteq DOMAIN loaderFile[1].deps

=============================================================================
